---- MODULE Spec2Model ----
(***************************************************************************)
(* Boot-to-kernel handoff path of PhipsOS: the kernel image validator      *)
(* (KernelFile), the physical layout planner and page-table construction   *)
(* (setup_page_tables), the recursive mapper (map_address) and the         *)
(* page-table entry codec (PageTableEntry).                                *)
(*                                                                         *)
(* A u64 is a tuple of four 16-bit limbs, most significant first, so that  *)
(* 0xffffffff88200000 is <<\Hffff, \Hffff, \H8820, 0>>.  Byte counts and   *)
(* file offsets of the images considered stay below 2^31 and are plain     *)
(* naturals.  A page table is the function from its non-zero slots to      *)
(* their entries; a slot outside its domain holds PageTableEntry(0).       *)
(***************************************************************************)
EXTENDS Integers, Sequences, FiniteSets, TLC

VARIABLES
    pc,       \* position of the scenario that is running
    image,    \* the raw kernel image: container validity, length, program headers
    result,   \* what KernelFile::from_bytes returned
    yielded,  \* the items the segments() iterator has produced so far
    mem,      \* memory holding page tables: address -> page table
    heap,     \* number of page tables the allocator has handed out
    root,     \* address of the root page table (PML4)
    setup,    \* the locals of setup_page_tables: tables, destination buffer, loop
    tramp,    \* trampoline address given to setup_page_tables
    p2v,      \* where physical memory is visible: virtual = physical + p2v
    call,     \* arguments and outcome of the last map_address call
    codec,    \* the page-table entry codec scenario
    boot,     \* the loader's hand-over: boot services, registers, kernel entry
    info      \* the BootInformation scenario

vars == <<pc, image, result, yielded, mem, heap, root, setup, tramp, p2v, call, codec, boot, info>>

---------------------------------------------------------------------------
(* 64-bit words                                                            *)

LIMB == 2 ^ 16

RECURSIVE AndNat(_, _)
\* bitwise AND of two naturals
AndNat(a, b) ==
    IF a = 0 \/ b = 0 THEN 0
    ELSE IF a = b THEN a
    ELSE IF a % 256 = 0 \/ b % 256 = 0 THEN 256 * AndNat(a \div 256, b \div 256)
    ELSE IF a % 16 = 0 \/ b % 16 = 0 THEN 16 * AndNat(a \div 16, b \div 16)
    ELSE (a % 2) * (b % 2) + 2 * AndNat(a \div 2, b \div 2)

OrNat(a, b) == IF a = 0 THEN b ELSE IF b = 0 THEN a ELSE a + b - AndNat(a, b)

U64(n) == <<0, 0, n \div LIMB, n % LIMB>>

ZERO64 == <<0, 0, 0, 0>>

\* bitwise AND of two 16-bit limbs
AndLimb(a, b) ==
    IF a = LIMB - 1 THEN b ELSE IF b = LIMB - 1 THEN a ELSE AndNat(a, b)

And64(a, b) ==
    <<AndLimb(a[1], b[1]), AndLimb(a[2], b[2]), AndLimb(a[3], b[3]), AndLimb(a[4], b[4])>>

Or64(a, b) ==
    <<OrNat(a[1], b[1]), OrNat(a[2], b[2]), OrNat(a[3], b[3]), OrNat(a[4], b[4])>>

Not64(a) ==
    <<(LIMB - 1) - a[1], (LIMB - 1) - a[2], (LIMB - 1) - a[3], (LIMB - 1) - a[4]>>

\* bit i (0 = least significant) of the word v
Bit(v, i) == (v[4 - (i \div 16)] \div (2 ^ (i % 16))) % 2

RECURSIVE LimbOfBits(_, _, _)
\* the 16-bit limb whose bit j is set iff base + j is in S, for j < n
LimbOfBits(S, base, n) ==
    IF n = 0 THEN 0
    ELSE LimbOfBits(S, base, n - 1)
         + (IF (base + n - 1) \in S THEN 2 ^ (n - 1) ELSE 0)

\* the word whose set bits are exactly S
FromBits(S) ==
    <<LimbOfBits(S, 48, 16), LimbOfBits(S, 32, 16), LimbOfBits(S, 16, 16), LimbOfBits(S, 0, 16)>>

BitsOf(v) == {i \in 0..63 : Bit(v, i) = 1}

\* limb k of v, 0 outside the word
LimbAt(v, k) == IF k \in 1..4 THEN v[k] ELSE 0

\* v >> n for 0 <= n < 64: limb k takes the high bits of the limb n \div 16
\* places above it and the low bits of the one before that
ShrLimb(v, n, k) ==
    (LimbAt(v, k - (n \div 16)) \div (2 ^ (n % 16)))
    + (LimbAt(v, k - (n \div 16) - 1) % (2 ^ (n % 16))) * (2 ^ (16 - (n % 16)))

Shr64(v, n) == <<ShrLimb(v, n, 1), ShrLimb(v, n, 2), ShrLimb(v, n, 3), ShrLimb(v, n, 4)>>

\* v << n for 0 <= n < 64, bits shifted out of the word are lost
ShlLimb(v, n, k) ==
    ((LimbAt(v, k + (n \div 16)) * (2 ^ (n % 16))) % LIMB)
    + (LimbAt(v, k + (n \div 16) + 1) \div (2 ^ (16 - (n % 16))))

Shl64(v, n) == <<ShlLimb(v, n, 1), ShlLimb(v, n, 2), ShlLimb(v, n, 3), ShlLimb(v, n, 4)>>

\* carries of the limb-wise addition, least significant limb first
Carry0(a, b) == (a[4] + b[4]) \div LIMB
Carry1(a, b) == (a[3] + b[3] + Carry0(a, b)) \div LIMB
Carry2(a, b) == (a[2] + b[2] + Carry1(a, b)) \div LIMB
Carry3(a, b) == (a[1] + b[1] + Carry2(a, b)) \div LIMB

\* a + b modulo 2^64
Add64(a, b) ==
    << (a[1] + b[1] + Carry2(a, b)) % LIMB,
       (a[2] + b[2] + Carry1(a, b)) % LIMB,
       (a[3] + b[3] + Carry0(a, b)) % LIMB,
       (a[4] + b[4]) % LIMB >>

AddOverflows(a, b) == Carry3(a, b) = 1

\* a < b as unsigned 64-bit numbers
Less64(a, b) ==
    \E k \in 1..4 : a[k] < b[k] /\ \A j \in 1..(k - 1) : a[j] = b[j]

---------------------------------------------------------------------------
(* util::sizes and the ELF constants the loader uses                       *)

TWO_MIB == 2097152
ONE_GIB == 1073741824
PAGE_SIZE == 4096

PT_LOAD == 1
PF_X == 1
PF_W == 2
PF_R == 4

\* v % n for a power of two n with 2^16 <= n <= 2^30
Mod64(v, n) == ((v[3] % (n \div LIMB)) * LIMB) + v[4]

ModTwoMib(v) == Mod64(v, TWO_MIB)

\* u64::is_multiple_of(n)
IsMultipleOf(v, n) == Mod64(v, n) = 0

IsMultipleOfTwoMib(v) == IsMultipleOf(v, TWO_MIB)

\* u64::next_multiple_of(TWO_MIB): r = v % n; r == 0 ? v : v + (n - r)
NextMultipleOfTwoMib(v) ==
    IF ModTwoMib(v) = 0 THEN v ELSE Add64(v, U64(TWO_MIB - ModTwoMib(v)))

NextMultipleOverflows(v) ==
    ModTwoMib(v) # 0 /\ AddOverflows(v, U64(TWO_MIB - ModTwoMib(v)))

\* usize::next_multiple_of(TWO_MIB) on a byte count
RoundUpTwoMib(n) ==
    IF n % TWO_MIB = 0 THEN n ELSE n + (TWO_MIB - (n % TWO_MIB))

---------------------------------------------------------------------------
(* KernelFile                                                              *)

EXPECTED_LINK_ADDR == <<\Hffff, \Hffff, \H8820, 0>>

\* elf.segments(): None when the image has no program headers
ElfSegments(img) == img.phdrs

\* load_segments_iter: the program headers of type PT_LOAD, in file order
LoadHeaders(phdrs) == SelectSeq(phdrs, LAMBDA h : h.p_type = PT_LOAD)

AnyHdr(s, P(_)) == \E i \in 1..Len(s) : P(s[i])

has_rx(ls) == AnyHdr(ls, LAMBDA h : AndNat(h.p_flags, OrNat(PF_R, PF_X)) # 0)

has_rw(ls) == AnyHdr(ls, LAMBDA h : AndNat(h.p_flags, OrNat(PF_R, PF_W)) # 0)

has_ro(ls) == AnyHdr(ls, LAMBDA h : h.p_flags = PF_R)

RECURSIVE CheckContiguous(_, _)
\* the loop over the pairs (segment i, segment i + 1), from pair i on
CheckContiguous(ls, i) ==
    IF i >= Len(ls) THEN "Ok"
    ELSE IF AddOverflows(ls[i].p_vaddr, U64(ls[i + 1].p_filesz)) THEN "Panic"
    ELSE LET sum == Add64(ls[i].p_vaddr, U64(ls[i + 1].p_filesz))
         IN  IF NextMultipleOverflows(sum) THEN "Panic"
             ELSE IF NextMultipleOfTwoMib(sum) # ls[i + 1].p_vaddr
                  THEN "InvalidLoadSegments"
                  ELSE CheckContiguous(ls, i + 1)

\* check_elf without the comparison of file size and memory size
check_elf_skips_sizes(img) ==
    IF Len(ElfSegments(img)) = 0 THEN "InvalidLoadSegments"
    ELSE LET ls == LoadHeaders(ElfSegments(img))
         IN  IF ~(has_ro(ls) /\ has_rx(ls) /\ has_rw(ls)) THEN "InvalidLoadSegments"
             ELSE IF Len(ls) # 3 THEN "InvalidLoadSegments"
             ELSE IF ls[1].p_vaddr # EXPECTED_LINK_ADDR THEN "InvalidLoadSegments"
             ELSE IF AnyHdr(ls, LAMBDA h : ~IsMultipleOfTwoMib(h.p_vaddr))
                  THEN "InvalidLoadSegments"
             ELSE CheckContiguous(ls, 1)

check_elf(img) ==
    IF Len(ElfSegments(img)) = 0 THEN "InvalidLoadSegments"
    ELSE LET ls == LoadHeaders(ElfSegments(img))
         IN  IF ~(has_ro(ls) /\ has_rx(ls) /\ has_rw(ls)) THEN "InvalidLoadSegments"
             ELSE IF Len(ls) # 3 THEN "InvalidLoadSegments"
             ELSE IF ls[1].p_vaddr # EXPECTED_LINK_ADDR THEN "InvalidLoadSegments"
             ELSE IF AnyHdr(ls, LAMBDA h : ~IsMultipleOfTwoMib(h.p_vaddr))
                  THEN "InvalidLoadSegments"
             ELSE IF AnyHdr(ls, LAMBDA h : h.p_filesz # h.p_memsz)
                  THEN "InvalidLoadSegments"
             ELSE CheckContiguous(ls, 1)

\* ElfBytes::minimal_parse fails on a malformed container, before check_elf
from_bytes(img) == IF ~img.valid THEN "InvalidElf" ELSE check_elf(img)

\* the item segments() computes for one program header: the assertion on the
\* end pointer, which is the start pointer advanced by p_offset once more
segment_in_range(img, h) ==
    h.p_offset # 0 => (h.p_offset + h.p_offset < img.len)

\* the slice it yields, relative to the start of the image buffer
segment_data(h) ==
    IF h.p_offset # 0
    THEN [start |-> h.p_offset, len |-> h.p_filesz]
    ELSE [start |-> 0, len |-> 0]

\* load_segments(): the items of segments() whose header is PT_LOAD
load_segments(img) == LoadHeaders(ElfSegments(img))

\* the headers segments() has to evaluate to produce the first n LOAD items
AllInRange(img) ==
    \A i \in 1..Len(ElfSegments(img)) : segment_in_range(img, ElfSegments(img)[i])

FirstLoadIndex(img) ==
    CHOOSE i \in 1..Len(ElfSegments(img)) :
        /\ ElfSegments(img)[i].p_type = PT_LOAD
        /\ \A j \in 1..(i - 1) : ElfSegments(img)[j].p_type # PT_LOAD

\* virt_start(): evaluates segments() up to the first LOAD item
virt_start_ok(img) ==
    \A j \in 1..FirstLoadIndex(img) : segment_in_range(img, ElfSegments(img)[j])

virt_start(img) == load_segments(img)[1].p_vaddr

RECURSIVE SumRaw(_, _)
SumRaw(ls, n) == IF n = 0 THEN 0 ELSE SumRaw(ls, n - 1) + ls[n].p_memsz

\* the sizes added up first and the total rounded up once
SumRounded_rounds_the_total(ls, n) == RoundUpTwoMib(SumRaw(ls, n))

RECURSIVE SumRounded(_, _)
SumRounded(ls, n) ==
    IF n = 0 THEN 0 ELSE SumRounded(ls, n - 1) + RoundUpTwoMib(ls[n].p_memsz)

\* total_runtime_memsize()
total_runtime_memsize(img) == SumRounded(load_segments(img), Len(load_segments(img)))

---------------------------------------------------------------------------
(* util::paging: addresses, page-table entries, page tables                *)

PAGE_BITS == 12
LEVEL_BITS == 9

\* bit_ops::create_mask(bits): the word with the low `bits` bits set
create_mask(bits) == FromBits(0..(bits - 1))

PAGE_BITS_MASK == create_mask(PAGE_BITS)
LEVEL_BITS_MASK == create_mask(LEVEL_BITS)
LIMIT_MAX_PHYS_BITS == create_mask(52)
PAGE_MASK == create_mask(12)

\* a word below 2^16 as a natural
Low16(v) == v[4]

index_ok(level) == level > 0 /\ level <= 4

\* index with the levels counted from 0 instead of 1
VirtAddress_index_level_from_zero(v, level) ==
    Low16(And64(Shr64(v, level * LEVEL_BITS + PAGE_BITS), LEVEL_BITS_MASK))

\* VirtAddress::index
VirtAddress_index(v, level) ==
    Low16(And64(Shr64(v, (level - 1) * LEVEL_BITS + PAGE_BITS), LEVEL_BITS_MASK))

BIT_PRESENT == FromBits({0})
BIT_WRITE == FromBits({1})
BIT_SUPERUSER == FromBits({2})
BIT_WRITE_THROUGH == FromBits({3})
BIT_CACHE_DISABLE == FromBits({4})
BIT_HUGEPAGE == FromBits({7})
BIT_EXECUTE_DISABLE == FromBits({63})
BITS_PHYS_ADDR_start == 12
BITS_PHYS_ADDR_end == 51

FlagNames ==
    {"present", "write", "superuser", "write_through", "cache_disable",
     "hugepage", "execute_disable"}

\* PageTableEntryFlags::default()
FlagsDefault == [n \in FlagNames |-> FALSE]

\* PageTableEntry::new that asserts the alignment only
PageTableEntry_new_ok_alignment_only(a) ==
    And64(a, PAGE_BITS_MASK) = ZERO64

\* the two assertions of PageTableEntry::new
PageTableEntry_new_ok(a) ==
    /\ And64(a, PAGE_BITS_MASK) = ZERO64
    /\ And64(a, Not64(LIMIT_MAX_PHYS_BITS)) = ZERO64

FlagBit(flags, n, bit) == IF flags[n] THEN bit ELSE ZERO64

\* PageTableEntry::new, when its assertions hold
PageTableEntry_new(a, flags) ==
    LET v1 == FlagBit(flags, "present", BIT_PRESENT)
        v2 == Or64(v1, FlagBit(flags, "write", BIT_WRITE))
        v3 == Or64(v2, FlagBit(flags, "superuser", BIT_SUPERUSER))
        v4 == Or64(v3, FlagBit(flags, "write_through", BIT_WRITE_THROUGH))
        v5 == Or64(v4, FlagBit(flags, "cache_disable", BIT_CACHE_DISABLE))
        v6 == Or64(v5, FlagBit(flags, "hugepage", BIT_HUGEPAGE))
        v7 == Or64(v6, a)
    IN  Or64(v7, FlagBit(flags, "execute_disable", BIT_EXECUTE_DISABLE))

Has(e, bit) == And64(e, bit) # ZERO64

\* PageTableEntry::flags
PageTableEntry_flags(e) ==
    [ present         |-> Has(e, BIT_PRESENT),
      write           |-> Has(e, BIT_WRITE),
      superuser       |-> Has(e, BIT_SUPERUSER),
      write_through   |-> Has(e, BIT_WRITE_THROUGH),
      cache_disable   |-> Has(e, BIT_CACHE_DISABLE),
      hugepage        |-> Has(e, BIT_HUGEPAGE),
      execute_disable |-> Has(e, BIT_EXECUTE_DISABLE) ]

\* the mask both address accessors build: create_mask(end - start) << start
PhysAddrMask ==
    Shl64(create_mask(BITS_PHYS_ADDR_end - BITS_PHYS_ADDR_start), BITS_PHYS_ADDR_start)

\* PageTableEntry::paddr (ws/libs/util)
PageTableEntry_paddr(e) == And64(e, PhysAddrMask)

\* PageTableEntry::addr (util): returns the mask itself
PageTableEntry_addr(e) == PhysAddrMask

\* PageTable::ZERO
PageTable_ZERO == << >>

\* table[i]
TableGet(t, i) == IF i \in DOMAIN t THEN t[i] ELSE ZERO64

\* table[i] = e
TableSet(t, i, e) == (i :> e) @@ t

\* the assertions of map_address_step and of the calls it makes
map_address_step_ok(phys_dest, level, hugepage) ==
    /\ hugepage => /\ level = 2 \/ level = 3
                   /\ level = 2 => IsMultipleOf(phys_dest, TWO_MIB)
                   /\ level = 3 => IsMultipleOf(phys_dest, ONE_GIB)
    /\ index_ok(level)
    /\ PageTableEntry_new_ok(phys_dest)

\* the assertions of map_address_step of util/src/paging.rs: the destination's
\* alignment is not asserted
map_address_step_ok_util(phys_dest, level, hugepage) ==
    /\ hugepage => (level = 2 \/ level = 3)
    /\ index_ok(level)
    /\ PageTableEntry_new_ok(phys_dest)

\* the flags of a step that marks every entry as not executable
StepFlags_never_executable(write, hugepage, execute_disable) ==
    [ present         |-> TRUE,
      write           |-> write,
      superuser       |-> TRUE,
      write_through   |-> FALSE,
      cache_disable   |-> FALSE,
      hugepage        |-> hugepage,
      execute_disable |-> TRUE ]

StepFlags(write, hugepage, execute_disable) ==
    [ present         |-> TRUE,
      write           |-> write,
      superuser       |-> TRUE,
      write_through   |-> FALSE,
      cache_disable   |-> FALSE,
      hugepage        |-> hugepage,
      execute_disable |-> execute_disable ]

\* map_address_step that merges the new entry into the slot's old content
map_address_step_keeps_old_bits(vaddr, table, phys_dest, level, write, hugepage, execute_disable) ==
    TableSet(table, VirtAddress_index(vaddr, level),
             Or64(TableGet(table, VirtAddress_index(vaddr, level)),
                  PageTableEntry_new(phys_dest, StepFlags(write, hugepage, execute_disable))))

\* map_address_step that writes every entry read-only
map_address_step_read_only(vaddr, table, phys_dest, level, write, hugepage, execute_disable) ==
    TableSet(table, VirtAddress_index(vaddr, level),
             PageTableEntry_new(phys_dest, StepFlags(FALSE, hugepage, execute_disable)))

\* map_address_step that zeroes the table before it writes the entry
map_address_step_clears_table(vaddr, table, phys_dest, level, write, hugepage, execute_disable) ==
    TableSet(PageTable_ZERO, VirtAddress_index(vaddr, level),
             PageTableEntry_new(phys_dest, StepFlags(write, hugepage, execute_disable)))

\* map_address_step: the table after the step, when its assertions hold
map_address_step(vaddr, table, phys_dest, level, write, hugepage, execute_disable) ==
    TableSet(table, VirtAddress_index(vaddr, level),
             PageTableEntry_new(phys_dest, StepFlags(write, hugepage, execute_disable)))

---------------------------------------------------------------------------
(* memory, allocation and the hardware's page walk                         *)

\* mem[a] = t
MemSet(m, a, t) == (a :> t) @@ m

\* Box::new(PageTable::ZERO): the address of the n-th table the allocator
\* hands out (4096-aligned, as the type's alignment demands)
TablePage(n) == Add64(<<0, 0, \H0100, 0>>, U64(n * PAGE_SIZE))

\* the physical address the MMU reads from an entry: bits 12 to 51
HwAddrMask == FromBits(12..51)

HwAddr(e) == And64(e, HwAddrMask)

RECURSIVE WalkFrom(_, _, _, _, _)
\* the MMU's walk for v from the table at physical address t of the given
\* level; off is the offset at which physical memory is visible in mem
WalkFrom(m, off, t, v, level) ==
    IF Add64(t, off) \notin DOMAIN m
    THEN [kind |-> "fault", level |-> level, entry |-> ZERO64]
    ELSE LET e == TableGet(m[Add64(t, off)], VirtAddress_index(v, level))
         IN  IF ~Has(e, BIT_PRESENT)
             THEN [kind |-> "fault", level |-> level, entry |-> e]
             ELSE IF level = 1 \/ (level \in {2, 3} /\ Has(e, BIT_HUGEPAGE))
             THEN [kind |-> "page", level |-> level, entry |-> e]
             ELSE WalkFrom(m, off, HwAddr(e), v, level - 1)

Walk(m, off, r, v) == WalkFrom(m, off, r, v, 4)

---------------------------------------------------------------------------
(* the kernel images and trampoline addresses considered                   *)

PT_NOTE == PT_LOAD + 3

MaxHeaders == 4

Hdr(type, flags, offset, vaddr, filesz, memsz) ==
    [ p_type |-> type, p_flags |-> flags, p_offset |-> offset,
      p_vaddr |-> vaddr, p_filesz |-> filesz, p_memsz |-> memsz ]

Image(valid, len, phdrs) == [valid |-> valid, len |-> len, phdrs |-> phdrs]

LinkPlus(n) == Add64(EXPECTED_LINK_ADDR, U64(n))

RX == PF_R + PF_X
RW == PF_R + PF_W

SegSizes == {0, PAGE_SIZE, TWO_MIB, TWO_MIB + PAGE_SIZE}

SegGaps == {0, PAGE_SIZE, TWO_MIB, 2 * TWO_MIB}

\* three LOAD segments RX, RW, R of every size, at every spacing, packed in
\* the file from offset o0 on: the first segment at offset 0 holds the ELF
\* header, as in a default link
LayoutImages ==
    { Image(TRUE, PAGE_SIZE + s1 + s2 + s3,
            << Hdr(PT_LOAD, RX, o0, LinkPlus(v0), s1, s1),
               Hdr(PT_LOAD, RW, o0 + s1, LinkPlus(v0 + g1), s2, s2),
               Hdr(PT_LOAD, PF_R, o0 + s1 + s2, LinkPlus(v0 + g1 + g2), s3, s3) >>) :
        s1 \in SegSizes, s2 \in SegSizes, s3 \in SegSizes,
        g1 \in SegGaps, g2 \in SegGaps,
        v0 \in {0, TWO_MIB}, o0 \in {0, PAGE_SIZE} }

\* one well-placed page per segment, no page at offset 0
Canonical(f1, f2, f3, m1, m2, m3) ==
    << Hdr(PT_LOAD, f1, PAGE_SIZE, LinkPlus(0), PAGE_SIZE, m1),
       Hdr(PT_LOAD, f2, 2 * PAGE_SIZE, LinkPlus(TWO_MIB), PAGE_SIZE, m2),
       Hdr(PT_LOAD, f3, 3 * PAGE_SIZE, LinkPlus(2 * TWO_MIB), PAGE_SIZE, m3) >>

\* every combination of the permission flags
FlagImages ==
    { Image(TRUE, 4 * PAGE_SIZE,
            Canonical(f1, f2, f3, PAGE_SIZE, PAGE_SIZE, PAGE_SIZE)) :
        f1 \in 0..7, f2 \in 0..7, f3 \in 0..7 }

\* memory size differing from file size, and a malformed container
MemszImages ==
    { Image(valid, 4 * PAGE_SIZE, Canonical(RX, RW, PF_R, m1, m2, m3)) :
        valid \in BOOLEAN,
        m1 \in {PAGE_SIZE, 2 * PAGE_SIZE}, m2 \in {PAGE_SIZE, 2 * PAGE_SIZE},
        m3 \in {PAGE_SIZE, 2 * PAGE_SIZE} }

\* the headers the images of every length are made of: the three canonical
\* LOAD segments, a fourth one behind them, and a note
HeaderPool ==
    { Canonical(RX, RW, PF_R, PAGE_SIZE, PAGE_SIZE, PAGE_SIZE)[k] : k \in 1..3 }
    \cup { Hdr(PT_LOAD, PF_R, 4 * PAGE_SIZE, LinkPlus(3 * TWO_MIB), PAGE_SIZE, PAGE_SIZE),
           Hdr(PT_NOTE, PF_R, 5 * PAGE_SIZE, ZERO64, PAGE_SIZE, PAGE_SIZE) }

CountImages ==
    { Image(TRUE, 6 * PAGE_SIZE, phdrs) :
        phdrs \in UNION { [1..n -> HeaderPool] : n \in 0..MaxHeaders } }

FileOffsets == {0, PAGE_SIZE, 2 * PAGE_SIZE, 3 * PAGE_SIZE}

\* accepted layouts whose file offsets, file sizes and buffer length vary
OffsetImages ==
    { Image(TRUE, len,
            << Hdr(PT_LOAD, RX, o1, LinkPlus(0), s1, s1),
               Hdr(PT_LOAD, RW, o2, LinkPlus(TWO_MIB), s2, s2),
               Hdr(PT_LOAD, PF_R, o3, LinkPlus(2 * TWO_MIB), s3, s3) >>) :
        o1 \in FileOffsets, o2 \in FileOffsets, o3 \in FileOffsets,
        s1 \in {PAGE_SIZE, 4 * PAGE_SIZE}, s2 \in {PAGE_SIZE, 4 * PAGE_SIZE},
        s3 \in {PAGE_SIZE, 4 * PAGE_SIZE},
        len \in {2 * PAGE_SIZE, 4 * PAGE_SIZE} }

Images == LayoutImages \cup FlagImages \cup MemszImages \cup CountImages \cup OffsetImages

\* the loader's own code in low memory; an address that shares the kernel's
\* level-4 slot; a high address in another level-4 slot
TrampolineAddrs ==
    { <<0, 0, \H7e5a, \H3458>>,
      <<\Hffff, \Hffff, \H8000, \H1000>>,
      <<\Hffff, \H8000, 0, \H1000>> }

IdleImage == Image(FALSE, 0, << >>)

IdleCall == [stage |-> "idle"]

IdleCodec == [stage |-> "idle"]
IdleBoot == [stage |-> "idle"]
IdleInfo == [stage |-> "idle"]

---------------------------------------------------------------------------
(* loader_lib::setup_page_tables                                           *)

IdleSetup ==
    [ pt_l4 |-> ZERO64, pt_l3 |-> ZERO64, pt_l2 |-> ZERO64,
      base |-> ZERO64, capacity |-> 0, offset |-> 0, i |-> 0,
      writes |-> << >>, phys |-> << >> ]

\* PhysMappingDest::to_phys_addr: a page's own address, or the address given
to_phys_addr(a) == a

\* the "generic setup" block: l4 -> l3 and l3 -> l2 for the kernel's start
GenericSetup(m, l4, l3, l2, v) ==
    LET m1 == MemSet(m, l4, map_address_step(v, m[l4], to_phys_addr(l3), 4, TRUE, FALSE, FALSE))
    IN  MemSet(m1, l3, map_address_step(v, m1[l3], to_phys_addr(l2), 3, TRUE, FALSE, FALSE))

\* AlignedBuffer::new(capacity, TWO_MIB): the allocator returns an address
\* aligned as asked; a request of zero bytes is outside the allocator's
\* contract and may return null or any such address
AlignedBufferBases == { <<0, 0, \H0080, 0>>, <<0, 1, \H4000, 0>> }

AlignedBuffer_new(capacity) ==
    IF capacity = 0 THEN AlignedBufferBases \cup {ZERO64} ELSE AlignedBufferBases

\* the three tables allocated on entry
SetupTables(m, h) ==
    MemSet(MemSet(MemSet(m, TablePage(h), PageTable_ZERO),
                  TablePage(h + 1), PageTable_ZERO),
           TablePage(h + 2), PageTable_ZERO)

SetupBegin ==
    /\ pc = "parsed"
    /\ result = "Ok"
    /\ \E t \in TrampolineAddrs :
       \E b \in AlignedBuffer_new(total_runtime_memsize(image)) :
          LET l4 == TablePage(heap)
              l3 == TablePage(heap + 1)
              l2 == TablePage(heap + 2)
              m0 == SetupTables(mem, heap)
              st == [IdleSetup EXCEPT !.pt_l4 = l4, !.pt_l3 = l3, !.pt_l2 = l2]
          IN  /\ tramp' = t
              /\ heap' = heap + 3
              /\ IF ~virt_start_ok(image)
                 THEN /\ pc' = "panic" /\ mem' = m0 /\ setup' = st
                 ELSE IF ~(map_address_step_ok(to_phys_addr(l3), 4, FALSE)
                           /\ map_address_step_ok(to_phys_addr(l2), 3, FALSE))
                 THEN /\ pc' = "panic" /\ mem' = m0 /\ setup' = st
                 ELSE IF ~AllInRange(image)
                 THEN /\ pc' = "panic"
                      /\ mem' = GenericSetup(m0, l4, l3, l2, virt_start(image))
                      /\ setup' = st
                 ELSE /\ pc' = "setup_loop"
                      /\ mem' = GenericSetup(m0, l4, l3, l2, virt_start(image))
                      /\ setup' = [st EXCEPT !.base = b,
                                             !.capacity = total_runtime_memsize(image),
                                             !.i = 1]
    /\ UNCHANGED <<image, result, yielded, root, p2v, call, codec, boot, info>>

\* one iteration of the loop over load_segments()
SetupSegment ==
    /\ pc = "setup_loop"
    /\ setup.i <= Len(load_segments(image))
    /\ LET h == load_segments(image)[setup.i]
           data == segment_data(h)
           end == setup.offset + data.len
           phys_addr == Add64(setup.base, U64(setup.offset))
           write == AndNat(h.p_flags, PF_W) # 0
           execute == AndNat(h.p_flags, PF_X) # 0
           copied == [setup EXCEPT
                        !.writes = Append(@, [dst |-> setup.offset,
                                              src |-> data.start,
                                              len |-> data.len])]
       IN  IF end > setup.capacity
           THEN /\ pc' = "panic" /\ UNCHANGED <<mem, setup>>
           ELSE IF ~IsMultipleOf(phys_addr, TWO_MIB)
                   \/ ~map_address_step_ok(to_phys_addr(phys_addr), 2, TRUE)
           THEN /\ pc' = "panic" /\ setup' = copied /\ UNCHANGED mem
           ELSE /\ pc' = "setup_loop"
                /\ mem' = MemSet(mem, setup.pt_l2,
                             map_address_step(h.p_vaddr, mem[setup.pt_l2],
                                              to_phys_addr(phys_addr), 2,
                                              write, TRUE, ~execute))
                /\ setup' = [copied EXCEPT
                               !.phys = Append(@, phys_addr),
                               !.offset = @ + RoundUpTwoMib(data.len),
                               !.i = @ + 1]
    /\ UNCHANGED <<image, result, yielded, heap, root, tramp, p2v, call, codec, boot, info>>

\* the "trampoline setup" block and the return of the root
SetupTrampoline ==
    /\ pc = "setup_loop"
    /\ setup.i > Len(load_segments(image))
    /\ LET l3 == TablePage(heap)
           l2 == TablePage(heap + 1)
           l1 == TablePage(heap + 2)
           l4 == setup.pt_l4
           page == And64(tramp, Not64(PAGE_MASK))
           m0 == SetupTables(mem, heap)
           m1 == MemSet(m0, l4, map_address_step(tramp, m0[l4], to_phys_addr(l3), 4, FALSE, FALSE, FALSE))
           m2 == MemSet(m1, l3, map_address_step(tramp, m1[l3], to_phys_addr(l2), 3, FALSE, FALSE, FALSE))
           m3 == MemSet(m2, l2, map_address_step(tramp, m2[l2], to_phys_addr(l1), 2, FALSE, FALSE, FALSE))
           m4 == MemSet(m3, l1, map_address_step(tramp, m3[l1], to_phys_addr(page), 1, FALSE, FALSE, FALSE))
       IN  IF PageTableEntry_flags(TableGet(mem[l4], VirtAddress_index(tramp, 4))).present
           THEN /\ pc' = "panic" /\ UNCHANGED <<mem, heap, root>>
           ELSE IF ~map_address_step_ok(to_phys_addr(page), 1, FALSE)
           THEN /\ pc' = "panic" /\ mem' = m3 /\ heap' = heap + 3 /\ UNCHANGED root
           ELSE /\ pc' = "done" /\ mem' = m4 /\ heap' = heap + 3 /\ root' = l4
    /\ UNCHANGED <<image, result, yielded, setup, tramp, p2v, call, codec, boot, info>>

---------------------------------------------------------------------------
(* the loader: from_bytes, then either the checker's loop over segments()  *)
(* or setup_page_tables                                                    *)

Init ==
    /\ pc = "start"
    /\ image \in Images
    /\ result = "none"
    /\ yielded = << >>
    /\ mem = << >>
    /\ heap = 0
    /\ root = ZERO64
    /\ setup = IdleSetup
    /\ tramp = ZERO64
    /\ p2v = ZERO64
    /\ call = IdleCall
    /\ codec = IdleCodec
    /\ boot = IdleBoot
    /\ info = IdleInfo

FromBytes ==
    /\ pc = "start"
    /\ result' = from_bytes(image)
    /\ pc' = "parsed"
    /\ UNCHANGED <<image, yielded, mem, heap, root, setup, tramp, p2v, call, codec, boot, info>>

\* one step of the iterator segments() returns
SegmentsNext ==
    /\ pc \in {"parsed", "iterating"}
    /\ result = "Ok"
    /\ Len(yielded) < Len(ElfSegments(image))
    /\ LET h == ElfSegments(image)[Len(yielded) + 1]
       IN  IF segment_in_range(image, h)
           THEN /\ yielded' = Append(yielded, [hdr |-> h, data |-> segment_data(h)])
                /\ pc' = "iterating"
           ELSE /\ pc' = "panic"
                /\ UNCHANGED yielded
    /\ UNCHANGED <<image, result, mem, heap, root, setup, tramp, p2v, call, codec, boot, info>>

SegmentsEnd ==
    /\ pc \in {"parsed", "iterating"}
    /\ result = "Ok"
    /\ Len(yielded) = Len(ElfSegments(image))
    /\ pc' = "iterated"
    /\ UNCHANGED <<image, result, yielded, mem, heap, root, setup, tramp, p2v, call, codec, boot, info>>

Next ==
    \/ FromBytes
    \/ SegmentsNext
    \/ SegmentsEnd
    \/ SetupBegin
    \/ SetupSegment
    \/ SetupTrampoline

Spec == Init /\ [][Next]_vars

---------------------------------------------------------------------------
(* util::paging::map_address                                              *)

\* a - b modulo 2^64
Sub64(a, b) == Add64(a, Add64(Not64(b), U64(1)))

\* the caller's translators: physical memory is visible at offset p2v
phys_to_virt(pa) == Add64(pa, p2v)
virt_to_phys(va) == Sub64(va, p2v)

\* Box::new(PageTable::ZERO) in the address space of the caller
BoxAddr(n) == phys_to_virt(TablePage(n))

\* what a read or write through a pointer finds: the table that lives at the
\* address; at an address where no table lives the access is outside the
\* language's rules and either faults or hits whatever memory is there
Touch(m, a) == IF a \in DOMAIN m THEN m ELSE MemSet(m, a, PageTable_ZERO)

\* the value of x, computed once where it is bound
Value(x) == CHOOSE y \in {x} : TRUE

RECURSIVE Descend(_, _, _, _, _, _, _)
\* the loop that prepares the levels above min_level, from `level` down;
\* cur is the pointer current_page_table
Descend(m, h, cur, v, level, min_level, stray) ==
    IF level = min_level
    THEN [mem |-> m, heap |-> h, cur |-> cur, fault |-> FALSE]
    ELSE IF cur \notin DOMAIN m /\ stray = "fault"
    THEN [mem |-> m, heap |-> h, cur |-> cur, fault |-> TRUE]
    ELSE LET m0 == Touch(m, cur)
             entry == TableGet(m0[cur], VirtAddress_index(v, level))
         IN  IF ~PageTableEntry_flags(entry).present
             THEN LET new_page_table_vaddr == BoxAddr(h)
                      new_page_table_paddr == virt_to_phys(new_page_table_vaddr)
                      m1 == MemSet(m0, new_page_table_vaddr, PageTable_ZERO)
                      m2 == MemSet(m1, cur,
                                map_address_step(v, m1[cur], new_page_table_paddr,
                                                 level, TRUE, FALSE, FALSE))
                  IN  Descend(Value(m2), h + 1, Value(new_page_table_paddr), v,
                              level - 1, min_level, stray)
             ELSE Descend(Value(m0), h, Value(phys_to_virt(PageTableEntry_paddr(entry))), v,
                          level - 1, min_level, stray)

\* map_address: memory, allocation count and outcome after the call
map_address(m, h, r, v, phys_dest, write, execute, l2_hugepage, stray) ==
    LET min_level == IF l2_hugepage THEN 2 ELSE 1
        d == Value(Descend(m, h, Value(phys_to_virt(r)), v, 4, min_level, stray))
        m3 == Touch(d.mem, d.cur)
    IN  IF d.fault \/ (d.cur \notin DOMAIN d.mem /\ stray = "fault")
        THEN [mem |-> d.mem, heap |-> d.heap, outcome |-> "fault"]
        ELSE IF ~map_address_step_ok(phys_dest, min_level, l2_hugepage)
        THEN [mem |-> d.mem, heap |-> d.heap, outcome |-> "panic"]
        ELSE [mem |-> MemSet(m3, d.cur,
                         map_address_step(v, m3[d.cur], phys_dest, min_level,
                                          write, l2_hugepage, ~execute)),
              heap |-> d.heap, outcome |-> "returned"]

MaxCalls == 2

\* the kernel's link address, the next huge page, a page inside the first
\* huge page, and an address under another root slot
MapVaddrs ==
    { EXPECTED_LINK_ADDR, LinkPlus(TWO_MIB), LinkPlus(PAGE_SIZE) }

\* a 2 MiB aligned frame and a frame that is only 4 KiB aligned
MapDests == { <<0, 0, \H0080, 0>>, <<0, 0, \H00a0, \H1000>> }

\* identity, and a direct map of physical memory at 0xffff800000000000
Translations == { ZERO64, <<\Hffff, \H8000, 0, 0>> }

\* the arguments of the call before the last one; none before the first call
NoCall ==
    [made |-> FALSE, vaddr |-> ZERO64, phys_dest |-> ZERO64, write |-> FALSE,
     execute |-> FALSE, l2_hugepage |-> FALSE]

LastCall ==
    [made |-> call.count > 0, vaddr |-> call.vaddr, phys_dest |-> call.phys_dest,
     write |-> call.write, execute |-> call.execute,
     l2_hugepage |-> call.l2_hugepage]

InitMap ==
    /\ pc = "map"
    /\ p2v \in Translations
    /\ root = TablePage(0)
    /\ mem = MemSet(<< >>, Add64(TablePage(0), p2v), PageTable_ZERO)
    /\ heap = 1
    /\ \E stray \in {"fault", "stray"}, given \in BOOLEAN :
          call = [count |-> 0, stray |-> stray, root_given |-> given,
                  vaddr |-> ZERO64, phys_dest |-> ZERO64, write |-> FALSE,
                  execute |-> FALSE, l2_hugepage |-> FALSE, outcome |-> "none",
                  prev |-> NoCall, mem_before |-> << >>, heap_before |-> 1]
    /\ image = IdleImage
    /\ result = "none"
    /\ yielded = << >>
    /\ setup = IdleSetup
    /\ tramp = ZERO64
    /\ codec = IdleCodec
    /\ boot = IdleBoot
    /\ info = IdleInfo

\* cr3(): the active root, read when the caller passes no root
cr3 == root

MapAddress ==
    /\ pc = "map"
    /\ call.count < MaxCalls
    /\ \E v \in MapVaddrs, phys_dest \in MapDests,
          write \in BOOLEAN, l2_hugepage \in BOOLEAN :
          LET execute == ~write
              r == IF call.root_given THEN root ELSE cr3
              out == Value(map_address(mem, heap, r, v, phys_dest, write, execute,
                                       l2_hugepage, call.stray))
          IN  /\ mem' = out.mem
              /\ heap' = out.heap
              /\ pc' = IF out.outcome = "returned" THEN "map" ELSE out.outcome
              /\ call' = [call EXCEPT !.count = @ + 1, !.vaddr = v,
                                      !.phys_dest = phys_dest, !.write = write,
                                      !.execute = execute,
                                      !.l2_hugepage = l2_hugepage,
                                      !.outcome = out.outcome,
                                      !.prev = LastCall,
                                      !.mem_before = mem,
                                      !.heap_before = heap]
    /\ UNCHANGED <<image, result, yielded, root, setup, tramp, p2v, codec, boot, info>>

NextMap == MapAddress

SpecMap == InitMap /\ [][NextMap]_vars

\* C5: after map_address returns, the walk from the root for vaddr, following
\* each present entry's physical address, ends at a final entry pointing to
\* phys_dest: a level-2 huge-page entry when l2_hugepage is set, otherwise a
\* level-1 entry; for every consistent pair of translators.
C5_WalkReachesDestination ==
    (pc = "map" /\ call.outcome = "returned") =>
        LET w == Walk(mem, p2v, root, call.vaddr)
        IN  /\ w.kind = "page"
            /\ w.level = (IF call.l2_hugepage THEN 2 ELSE 1)
            /\ Has(w.entry, BIT_HUGEPAGE) <=> call.l2_hugepage
            /\ HwAddr(w.entry) = call.phys_dest

\* the slot of a call's final entry: its level and the indices that lead to it
FinalSlot(c) ==
    << IF c.l2_hugepage THEN 2 ELSE 1,
       VirtAddress_index(c.vaddr, 4), VirtAddress_index(c.vaddr, 3),
       VirtAddress_index(c.vaddr, 2),
       IF c.l2_hugepage THEN 0 ELSE VirtAddress_index(c.vaddr, 1) >>

\* the walk for the address of call c ends at c's destination with c's bits
ResolvesAsMapped(c) ==
    LET w == Walk(mem, p2v, root, c.vaddr)
    IN  /\ w.kind = "page"
        /\ w.level = (IF c.l2_hugepage THEN 2 ELSE 1)
        /\ HwAddr(w.entry) = c.phys_dest
        /\ Has(w.entry, BIT_WRITE) <=> c.write
        /\ Has(w.entry, BIT_EXECUTE_DISABLE) <=> ~c.execute

\* a second call on the same root has returned
SecondCallReturned ==
    pc = "map" /\ call.outcome = "returned" /\ call.prev.made

\* C23: after map_address calls on one root whose final slots differ, the
\* address mapped by the earlier call still resolves to its own destination
\* with its own write and execute-disable bits; and a call that repeats the
\* arguments of the call before it allocates no table and leaves the tree as
\* it was.
C23_EarlierMappingsKept ==
    SecondCallReturned =>
        /\ FinalSlot(call.prev) # FinalSlot(LastCall) => ResolvesAsMapped(call.prev)
        /\ call.prev = LastCall => (mem = call.mem_before /\ heap = call.heap_before)

\* the entry of slot j of the table at a, before the last call
EntryBefore(a, j) ==
    IF a \in DOMAIN call.mem_before THEN TableGet(call.mem_before[a], j) ELSE ZERO64

\* the slots whose content the last call changed
WrittenSlots ==
    { s \in UNION { { <<a, j>> : j \in DOMAIN mem[a] } : a \in DOMAIN mem } :
        mem[s[1]][s[2]] # EntryBefore(s[1], s[2]) }

\* an entry that only leads to the next table
IsIntermediateEntry(e) ==
    /\ Has(e, BIT_PRESENT)
    /\ Has(e, BIT_WRITE)
    /\ ~Has(e, BIT_HUGEPAGE)
    /\ ~Has(e, BIT_EXECUTE_DISABLE)

\* an entry that carries the policy of the last call
IsFinalEntry(e) ==
    /\ Has(e, BIT_PRESENT)
    /\ Has(e, BIT_WRITE) <=> call.write
    /\ Has(e, BIT_EXECUTE_DISABLE) <=> ~call.execute
    /\ Has(e, BIT_HUGEPAGE) <=> call.l2_hugepage
    /\ HwAddr(e) = call.phys_dest

FinalIndex == VirtAddress_index(call.vaddr, IF call.l2_hugepage THEN 2 ELSE 1)

WalkBefore == Walk(call.mem_before, p2v, root, call.vaddr)

\* that walk ended at a huge-page entry above the level of the call's final entry
MetHugePage ==
    /\ WalkBefore.kind = "page"
    /\ WalkBefore.level \in {2, 3}
    /\ WalkBefore.level > (IF call.l2_hugepage THEN 2 ELSE 1)
    /\ Has(WalkBefore.entry, BIT_HUGEPAGE)

\* the physical address x lies in the page that the huge-page entry e of the
\* given level maps
InHugePage(x, e, level) ==
    Sub64(x, U64(Mod64(x, IF level = 2 THEN TWO_MIB ELSE ONE_GIB))) = HwAddr(e)

\* C27: when the walk of map_address meets a present huge-page entry at level
\* 3 or 2, the call writes no entry into the memory that this huge page maps.
C27_HugePageNotUsedAsTable ==
    (pc = "map" /\ call.outcome = "returned" /\ MetHugePage) =>
        \A s \in WrittenSlots :
            ~InHugePage(virt_to_phys(s[1]), WalkBefore.entry, WalkBefore.level)





---------------------------------------------------------------------------
(* PageTableEntry: build an entry, then decode it                          *)

\* 0, a page, a huge page, bit 51, the highest frame, an unaligned address,
\* bit 52, bit 63
CodecAddrs ==
    { ZERO64, <<0, 0, 0, \H1000>>, <<0, 0, \H0020, 0>>, <<0, 0, \H7e5a, \H3000>>,
      <<\H0008, 0, 0, 0>>, <<\H000f, \Hffff, \Hffff, \Hf000>>,
      <<0, 0, 0, \H1001>>, <<\H0010, 0, 0, 0>>, <<\H8000, 0, 0, \H1000>> }

InitCodec ==
    /\ pc = "codec"
    /\ \E a \in CodecAddrs, flags \in [FlagNames -> BOOLEAN] :
          codec = [stage |-> "input", addr |-> a, flags |-> flags,
                   entry |-> ZERO64, decoded_flags |-> FlagsDefault,
                   decoded_paddr |-> ZERO64, decoded_addr |-> ZERO64]
    /\ image = IdleImage
    /\ result = "none"
    /\ yielded = << >>
    /\ mem = << >>
    /\ heap = 0
    /\ root = ZERO64
    /\ setup = IdleSetup
    /\ tramp = ZERO64
    /\ p2v = ZERO64
    /\ call = IdleCall
    /\ boot = IdleBoot
    /\ info = IdleInfo

CodecNew ==
    /\ pc = "codec"
    /\ codec.stage = "input"
    /\ IF PageTableEntry_new_ok(codec.addr)
       THEN codec' = [codec EXCEPT !.stage = "built",
                                   !.entry = PageTableEntry_new(codec.addr, codec.flags)]
       ELSE codec' = [codec EXCEPT !.stage = "panic"]
    /\ UNCHANGED <<pc, image, result, yielded, mem, heap, root, setup, tramp, p2v, call, boot, info>>

CodecDecode ==
    /\ pc = "codec"
    /\ codec.stage = "built"
    /\ codec' = [codec EXCEPT !.stage = "decoded",
                              !.decoded_flags = PageTableEntry_flags(codec.entry),
                              !.decoded_paddr = PageTableEntry_paddr(codec.entry),
                              !.decoded_addr = PageTableEntry_addr(codec.entry)]
    /\ UNCHANGED <<pc, image, result, yielded, mem, heap, root, setup, tramp, p2v, call, boot, info>>

NextCodec == CodecNew \/ CodecDecode

SpecCodec == InitCodec /\ [][NextCodec]_vars

\* C6: for every 4 KiB aligned physical address below 2^52 and every
\* combination of the seven flags, the entry built by new decodes to the same
\* flags and, through the address accessor, to the same address.
C6_EntryRoundTrip ==
    codec.stage = "decoded" =>
        /\ codec.decoded_flags = codec.flags
        /\ codec.decoded_paddr = codec.addr

\* the address has one of its low 12 bits or a bit at position 52 or above set
AddrOutOfRange(a) == \E k \in (0..11) \cup (52..63) : Bit(a, k) = 1

\* the bit of the entry that carries each flag
FlagPosition ==
    [present |-> 0, write |-> 1, superuser |-> 2, write_through |-> 3,
     cache_disable |-> 4, hugepage |-> 7, execute_disable |-> 63]

\* C13: PageTableEntry::new fails when the address has a low 12 bit or a bit
\* at position 52 or above set, and succeeds otherwise; in a built entry the
\* address part is the given 4 KiB aligned address below 2^52 and each flag
\* bit is exactly the given flag, unaltered by the address.
C13_NewRejectsBadAddress ==
    /\ codec.stage = "panic" => AddrOutOfRange(codec.addr)
    /\ codec.stage \in {"built", "decoded"} =>
          /\ ~AddrOutOfRange(codec.addr)
          /\ \A n \in FlagNames :
                Bit(codec.entry, FlagPosition[n]) = (IF codec.flags[n] THEN 1 ELSE 0)
          /\ \A k \in 12..51 : Bit(codec.entry, k) = Bit(codec.addr, k)
          /\ \A k \in {5, 6} \cup (8..11) \cup (52..62) : Bit(codec.entry, k) = 0

C13_Witness ==
    /\ codec.stage = "panic"
    /\ codec.addr = <<\H0010, 0, 0, 0>>
    /\ codec.flags.execute_disable

---------------------------------------------------------------------------
(* map_address_step on one page table                                      *)

\* the table the step works on lives at the first table address
StepTableAddr == TablePage(0)

\* entries a table may hold before the step
OldLeaf == PageTableEntry_new(<<0, 0, \H0123, \H4000>>, StepFlags(TRUE, FALSE, TRUE))
OldHuge == PageTableEntry_new(<<0, 0, \H0060, 0>>, StepFlags(FALSE, TRUE, FALSE))

\* an empty table, and two tables with entries in the slots the addresses
\* below index (0, 65, 510, 511 and 219, 245, 443, 477) and in others
StepTables ==
    { PageTable_ZERO,
      (0 :> OldLeaf) @@ (65 :> OldHuge) @@ (510 :> OldLeaf) @@ (511 :> OldHuge)
          @@ (1 :> OldLeaf) @@ (300 :> OldHuge),
      (219 :> OldHuge) @@ (245 :> OldLeaf) @@ (443 :> OldHuge) @@ (477 :> OldLeaf)
          @@ (65 :> OldLeaf) @@ (7 :> OldLeaf) }

StepVaddrs == { EXPECTED_LINK_ADDR, <<\Hffff, \Heeee, \Hdead, \Hbeef>> }

\* 2 MiB aligned, 4 KiB aligned only, 1 GiB aligned, not page aligned
StepDests ==
    { <<0, 0, \H0080, 0>>, <<0, 0, \H0080, \H1000>>, <<0, 0, \H4000, 0>>,
      <<0, 0, \H0080, \H1001>> }

\* the levels a caller may pass, the valid ones and one on each side
StepLevels == 0..5

\* the two versions of the function in the repository
StepVersions == {"ws/libs/util", "util"}

InitStep ==
    /\ pc = "step"
    /\ \E t \in StepTables : mem = MemSet(<< >>, StepTableAddr, t)
    /\ heap = 1
    /\ \E version \in StepVersions :
          call = [version |-> version, outcome |-> "none", vaddr |-> ZERO64,
                  phys_dest |-> ZERO64, level |-> 0, write |-> FALSE,
                  hugepage |-> FALSE, execute_disable |-> FALSE,
                  before |-> PageTable_ZERO]
    /\ root = StepTableAddr
    /\ image = IdleImage
    /\ result = "none"
    /\ yielded = << >>
    /\ setup = IdleSetup
    /\ tramp = ZERO64
    /\ p2v = ZERO64
    /\ codec = IdleCodec
    /\ boot = IdleBoot
    /\ info = IdleInfo

MapStep ==
    /\ pc = "step"
    /\ \E v \in StepVaddrs, phys_dest \in StepDests, level \in StepLevels,
          write \in BOOLEAN, hugepage \in BOOLEAN, execute_disable \in BOOLEAN :
          LET ok == IF call.version = "util"
                    THEN map_address_step_ok_util(phys_dest, level, hugepage)
                    ELSE map_address_step_ok(phys_dest, level, hugepage)
          IN  /\ mem' = IF ok
                        THEN MemSet(mem, StepTableAddr,
                                    map_address_step(v, mem[StepTableAddr], phys_dest,
                                                     level, write, hugepage,
                                                     execute_disable))
                        ELSE mem
              /\ pc' = IF ok THEN "stepped" ELSE "panic"
              /\ call' = [call EXCEPT !.outcome = IF ok THEN "returned" ELSE "panic",
                                      !.vaddr = v, !.phys_dest = phys_dest,
                                      !.level = level, !.write = write,
                                      !.hugepage = hugepage,
                                      !.execute_disable = execute_disable,
                                      !.before = mem[StepTableAddr]]
    /\ UNCHANGED <<image, result, yielded, heap, root, setup, tramp, p2v, codec, boot, info>>

NextStep == MapStep

SpecStep == InitStep /\ [][NextStep]_vars

\* bit k of the entry the step has to write, from the step's arguments alone
StepEntryBit(k) ==
    IF k = 0 \/ k = 2 THEN 1
    ELSE IF k = 1 THEN (IF call.write THEN 1 ELSE 0)
    ELSE IF k = 7 THEN (IF call.hugepage THEN 1 ELSE 0)
    ELSE IF k = 63 THEN (IF call.execute_disable THEN 1 ELSE 0)
    ELSE IF k >= 12 /\ k <= 51 THEN Bit(call.phys_dest, k)
    ELSE 0

\* C11: map_address_step changes exactly the slot at the address's index for
\* the level, to an entry with present set, the requested write, huge-page and
\* execute-disable flags and the given destination, whatever the slot held
\* before; the other 511 slots stay as they were and no table is allocated.
C11_StepWritesOneSlot ==
    pc = "stepped" =>
        LET t == mem[StepTableAddr]
            i == VirtAddress_index(call.vaddr, call.level)
        IN  /\ \A j \in 0..511 : j # i => TableGet(t, j) = TableGet(call.before, j)
            /\ \A k \in 0..63 : Bit(TableGet(t, i), k) = StepEntryBit(k)
            /\ DOMAIN mem = {StepTableAddr}
            /\ heap = 1

C11_Witness ==
    /\ pc = "stepped"
    /\ call.level = 2
    /\ call.hugepage
    /\ TableGet(call.before, VirtAddress_index(call.vaddr, 2)) = OldLeaf
    /\ TableGet(mem[StepTableAddr], VirtAddress_index(call.vaddr, 2)) # OldLeaf
    /\ TableGet(mem[StepTableAddr], 7) = OldLeaf

\* the precondition of a huge-page step: level 2 with a 2 MiB aligned
\* destination or level 3 with a 1 GiB aligned destination
HugeStepAllowed ==
    \/ call.level = 2 /\ \A k \in 0..20 : Bit(call.phys_dest, k) = 0
    \/ call.level = 3 /\ \A k \in 0..29 : Bit(call.phys_dest, k) = 0

\* C12: map_address_step with hugepage = true fails unless the level is 2 or 3
\* and the destination is a multiple of 2 MiB at level 2, of 1 GiB at level 3;
\* on every failure the page table is left unchanged.
C12_HugeStepPrecondition ==
    /\ (pc \in {"stepped", "panic"} /\ call.hugepage /\ ~HugeStepAllowed)
          => call.outcome = "panic"
    /\ pc = "panic" => mem[StepTableAddr] = call.before

---------------------------------------------------------------------------
(* uefi-loader main: load, validate, build the tables, exit boot services, *)
(* trampoline, kernel entry                                                *)

BootInformation_MAGIC == <<\Hdead, \Hbeef, \H1337, \H1337>>

\* the root the firmware runs the loader with
FirmwareCr3 == <<0, 0, \H7f00, 0>>

\* images the loader finds on the boot volume: memory sizes that differ from
\* the file sizes, malformed containers, and the layouts whose first segment
\* is one page at the link address with the second one 2 MiB behind it
BootImages ==
    MemszImages
    \cup { img \in LayoutImages :
             /\ img.phdrs[1].p_offset = 0
             /\ img.phdrs[1].p_filesz = PAGE_SIZE
             /\ img.phdrs[1].p_vaddr = EXPECTED_LINK_ADDR
             /\ img.phdrs[2].p_vaddr = LinkPlus(TWO_MIB) }

\* e_entry of the image
EntryAddrs == { EXPECTED_LINK_ADDR, LinkPlus(PAGE_SIZE) }

\* what rdx holds when the trampoline is called: the call passes two
\* arguments (rdi, rsi), so rdx is whatever the preceding code left there:
\* zero, an address inside the kernel's mapping, the trampoline's page, an
\* address of the loader's heap
RdxValues ==
    { ZERO64, LinkPlus(TWO_MIB), <<0, 0, \H7e5a, \H3000>>, <<0, 0, \H0100, 0>> }

\* StdOutLogger::log that writes to the UEFI console whatever the flag says
StdOutLogger_log_unguarded(exited_flag) == <<"stdout">>

\* StdOutLogger::log: the boot-service calls one record leads to
StdOutLogger_log(exited_flag) ==
    IF exited_flag THEN << >> ELSE <<"stdout">>

\* the calls of n consecutive log records
RECURSIVE LogRecords(_, _)
LogRecords(exited_flag, n) ==
    IF n = 0 THEN << >>
    ELSE StdOutLogger_log(exited_flag) \o LogRecords(exited_flag, n - 1)

\* boot-service calls are remembered when they come after the firmware has
\* ended the boot services
Called(b, calls) ==
    IF b.exited THEN [b EXCEPT !.late = @ \o calls] ELSE b

InitBoot ==
    /\ pc = "main"
    /\ image \in BootImages
    /\ boot = [ flag    |-> FALSE,        \* UEFI_BOOT_SERVICES_EXITED
                exited  |-> FALSE,        \* the firmware has ended the boot services
                late    |-> << >>,        \* boot-service calls made after that
                failed  |-> FALSE,        \* a step of main_inner has failed
                cr3     |-> FirmwareCr3,
                rip     |-> "loader",
                rdi     |-> ZERO64, rsi |-> ZERO64, rdx |-> ZERO64,
                handoff |-> "none",       \* the boot information block built
                magic_checked |-> FALSE,
                end     |-> "running" ]
    /\ result = "none"
    /\ yielded = << >>
    /\ mem = << >>
    /\ heap = 0
    /\ root = ZERO64
    /\ setup = IdleSetup
    /\ tramp = ZERO64
    /\ p2v = ZERO64
    /\ call = IdleCall
    /\ codec = IdleCodec
    /\ info = IdleInfo

\* load_kernel_elf_from_disk()?: the volume or the file may be missing
LoadKernelElf ==
    /\ pc = "main"
    /\ \E found \in BOOLEAN :
          IF found
          THEN /\ pc' = "start" /\ UNCHANGED boot
          ELSE /\ pc' = "panic" /\ boot' = [boot EXCEPT !.failed = TRUE]
    /\ UNCHANGED <<image, result, yielded, mem, heap, root, setup, tramp, p2v, call, codec, info>>

\* KernelFile::from_bytes(&file).context(..)? returned an error, which
\* main_inner returns and main unwraps
MainInnerErr ==
    /\ pc = "parsed"
    /\ result # "Ok"
    /\ pc' = "panic"
    /\ boot' = [boot EXCEPT !.failed = TRUE]
    /\ UNCHANGED <<image, result, yielded, mem, heap, root, setup, tramp, p2v, call, codec, info>>

\* a panic of the loader: the hook logs the message, then the panic runtime
\* ends the program; the statement after the unwrap() in main is not reached
Panic ==
    /\ pc = "panic"
    /\ pc' = "aborted"
    /\ boot' = [Called(boot, StdOutLogger_log(boot.flag)) EXCEPT
                   !.failed = TRUE,
                   !.end = "returned_to_firmware"]
    /\ UNCHANGED <<image, result, yielded, mem, heap, root, setup, tramp, p2v, call, codec, info>>

\* debug!("Exiting UEFI boot services")
LogExiting ==
    /\ pc = "done"
    /\ pc' = "exiting"
    /\ boot' = Called(boot, LogRecords(boot.flag, 1))
    /\ UNCHANGED <<image, result, yielded, mem, heap, root, setup, tramp, p2v, call, codec, info>>

\* logger::exit_boot_services(): leaves the loggers as they are
logger_exit_boot_services(b) == b

\* exit_boot_services(): the flag is stored, then the firmware is asked to end
\* the boot services; the memory map returned is never dropped
ExitBootServices ==
    /\ pc = "exiting"
    /\ pc' = "exited"
    /\ boot' = logger_exit_boot_services([boot EXCEPT !.flag = TRUE, !.exited = TRUE])
    /\ UNCHANGED <<image, result, yielded, mem, heap, root, setup, tramp, p2v, call, codec, info>>

\* info!("Exited UEFI boot services"), info!("Jumping to kernel") and the two
\* debug! records
LogJumping ==
    /\ pc = "exited"
    /\ pc' = "jumping"
    /\ boot' = Called(boot, LogRecords(boot.flag, 4))
    /\ UNCHANGED <<image, result, yielded, mem, heap, root, setup, tramp, p2v, call, codec, info>>

\* jump_to_kernel_trampoline(new_cr3, entry)
CallTrampoline ==
    /\ pc = "jumping"
    /\ pc' = "trampoline"
    /\ \E entry \in EntryAddrs, rdx \in RdxValues :
          boot' = [boot EXCEPT !.rip = "trampoline",
                               !.rdi = root, !.rsi = entry, !.rdx = rdx]
    /\ UNCHANGED <<image, result, yielded, mem, heap, root, setup, tramp, p2v, call, codec, info>>

\* the address translates to a page under the root in cr3
Mapped(m, r, v) == Walk(m, ZERO64, r, v).kind = "page"

\* mov %rdi, %cr3
TrampolineMovCr3 ==
    /\ pc = "trampoline"
    /\ pc' = "trampoline_jmp"
    /\ boot' = [boot EXCEPT !.cr3 = boot.rdi]
    /\ UNCHANGED <<image, result, yielded, mem, heap, root, setup, tramp, p2v, call, codec, info>>

\* jmp *%rsi, fetched under the new root
TrampolineJmp ==
    /\ pc = "trampoline_jmp"
    /\ IF Mapped(mem, boot.cr3, tramp)
       THEN /\ pc' = "kernel_entry" /\ boot' = [boot EXCEPT !.rip = "kernel"]
       ELSE /\ pc' = "fault" /\ UNCHANGED boot
    /\ UNCHANGED <<image, result, yielded, mem, heap, root, setup, tramp, p2v, call, codec, info>>

\* kernel_entry: mov (STACK_TOP), %rsp; mov %rdx, %rdi; call main
KernelEntry ==
    /\ pc = "kernel_entry"
    /\ IF Mapped(mem, boot.cr3, boot.rsi)
       THEN /\ pc' = "kernel_main" /\ boot' = [boot EXCEPT !.rdi = boot.rdx]
       ELSE /\ pc' = "fault" /\ UNCHANGED boot
    /\ UNCHANGED <<image, result, yielded, mem, heap, root, setup, tramp, p2v, call, codec, info>>

\* the kernel's main_inner(boot_information): the pointer is unwrapped, then
\* the magic behind it is compared; what an address that no boot
\* information was written to holds is not determined
KernelMain ==
    /\ pc = "kernel_main"
    /\ IF boot.rdi = ZERO64
       THEN /\ pc' = "kernel_panic" /\ UNCHANGED boot
       ELSE IF ~Mapped(mem, boot.cr3, boot.rdi)
       THEN /\ pc' = "fault" /\ UNCHANGED boot
       ELSE \E magic \in {BootInformation_MAGIC, ZERO64} :
               /\ boot' = [boot EXCEPT !.magic_checked = TRUE]
               /\ pc' = IF magic = BootInformation_MAGIC
                        THEN "kernel_running" ELSE "kernel_panic"
    /\ UNCHANGED <<image, result, yielded, mem, heap, root, setup, tramp, p2v, call, codec, info>>

NextBoot ==
    \/ LoadKernelElf
    \/ FromBytes
    \/ MainInnerErr
    \/ SetupBegin
    \/ SetupSegment
    \/ SetupTrampoline
    \/ Panic
    \/ LogExiting
    \/ ExitBootServices
    \/ LogJumping
    \/ CallTrampoline
    \/ TrampolineMovCr3
    \/ TrampolineJmp
    \/ KernelEntry
    \/ KernelMain

SpecBoot == InitBoot /\ [][NextBoot]_vars

---------------------------------------------------------------------------
(* kernel_lib::BootInformation                                             *)

\* the length of the command-line buffer, the longest command line the
\* interface names, the number of memory-map entries
CMDLINE_BUFFER_LEN == 2048
MAX_CMDLINE_LEN == 4096
MMAP_ENTRIES == 1024

\* a field of a #[repr(C)] struct
Field(size, align) == [size |-> size, align |-> align]

\* n rounded up to a multiple of the alignment a
AlignUp(n, a) == IF n % a = 0 THEN n ELSE n + (a - (n % a))

RECURSIVE EndOffset(_, _)
\* where field n of a #[repr(C)] struct ends: every field starts at the next
\* multiple of its alignment behind the field before it
EndOffset(fields, n) ==
    IF n = 0 THEN 0
    ELSE AlignUp(EndOffset(fields, n - 1), fields[n].align) + fields[n].size

RECURSIVE MaxAlign(_, _)
MaxAlign(fields, n) ==
    IF n = 0 THEN 1
    ELSE IF fields[n].align > MaxAlign(fields, n - 1)
         THEN fields[n].align ELSE MaxAlign(fields, n - 1)

\* size_of of a #[repr(C)] struct
size_of(fields) ==
    AlignUp(EndOffset(fields, Len(fields)), MaxAlign(fields, Len(fields)))

\* MemoryMapEntry: from, length, typ, prot, _padding
MemoryMapEntryFields ==
    << Field(8, 8), Field(8, 8), Field(1, 1), Field(1, 1), Field(6, 1) >>

\* BootInformation: magic, version, length, cmdline_len, cmdline, _pad1,
\* rsdp_addr, efi_system_table, efi_image_handle, _pad2, mmap_n, mmap
BootInformationFields ==
    << Field(8, 8), Field(4, 4), Field(4, 4), Field(4, 4),
       Field(CMDLINE_BUFFER_LEN, 1), Field(4, 1),
       Field(8, 8), Field(8, 8), Field(8, 8),
       Field(4, 1), Field(4, 4),
       Field(MMAP_ENTRIES * size_of(MemoryMapEntryFields), 8) >>

MemoryMapEntry_default == [from |-> 0, length |-> 0, typ |-> 0, prot |-> 0]

\* cmdline_buffer[0..cmdline.len()].copy_from_slice(..) panics when the range
\* ends behind the buffer
BootInformation_new_ok(cmdline) == Len(cmdline) <= CMDLINE_BUFFER_LEN

\* the block that new builds, with the length of the fields before the
\* memory map written as the block's length
BootInformation_new_length_of_header(cmdline) ==
    [ magic       |-> BootInformation_MAGIC,
      version     |-> 1,
      length      |-> EndOffset(BootInformationFields, Len(BootInformationFields) - 1),
      cmdline_len |-> CMDLINE_BUFFER_LEN,
      cmdline     |-> cmdline \o [i \in 1..(CMDLINE_BUFFER_LEN - Len(cmdline)) |-> 0],
      rsdp_addr   |-> "None", efi_system_table |-> "None", efi_image_handle |-> "None",
      mmap_n      |-> 0,
      mmap        |-> [i \in 1..MMAP_ENTRIES |-> MemoryMapEntry_default] ]

\* `as u32`: the low 32 bits of a size
AsU32(n) == (n % LIMB) + LIMB * ((n \div LIMB) % LIMB)

\* BootInformation::new(cmdline)
BootInformation_new(cmdline) ==
    [ magic       |-> BootInformation_MAGIC,
      version     |-> 1,
      length      |-> AsU32(size_of(BootInformationFields)),
      cmdline_len |-> AsU32(CMDLINE_BUFFER_LEN),
      cmdline     |-> cmdline \o [i \in 1..(CMDLINE_BUFFER_LEN - Len(cmdline)) |-> 0],
      rsdp_addr   |-> "None", efi_system_table |-> "None", efi_image_handle |-> "None",
      mmap_n      |-> 0,
      mmap        |-> [i \in 1..MMAP_ENTRIES |-> MemoryMapEntry_default] ]

MaxSeed == 9

\* lengths around the ends of the range and of the buffer
CmdlineLens ==
    { 0, 1, 2, 16, CMDLINE_BUFFER_LEN - 1, CMDLINE_BUFFER_LEN,
      CMDLINE_BUFFER_LEN + 1, MAX_CMDLINE_LEN }

\* a command line of printable ASCII bytes
Cmdline(len, seed) == [i \in 1..len |-> 33 + ((i * seed + seed) % 94)]

InitInfo ==
    /\ pc = "info"
    /\ \E len \in CmdlineLens, seed \in 1..MaxSeed :
          info = [stage |-> "input", cmdline |-> Cmdline(len, seed), block |-> "none"]
    /\ image = IdleImage
    /\ result = "none"
    /\ yielded = << >>
    /\ mem = << >>
    /\ heap = 0
    /\ root = ZERO64
    /\ setup = IdleSetup
    /\ tramp = ZERO64
    /\ p2v = ZERO64
    /\ call = IdleCall
    /\ codec = IdleCodec
    /\ boot = IdleBoot

InfoNew ==
    /\ pc = "info"
    /\ info.stage = "input"
    /\ IF BootInformation_new_ok(info.cmdline)
       THEN info' = [info EXCEPT !.stage = "built",
                                 !.block = BootInformation_new(info.cmdline)]
       ELSE info' = [info EXCEPT !.stage = "panic"]
    /\ UNCHANGED <<pc, image, result, yielded, mem, heap, root, setup, tramp, p2v, call, codec, boot>>

NextInfo == InfoNew

SpecInfo == InitInfo /\ [][NextInfo]_vars

\* C18: for every command line of at most 4096 bytes, new succeeds and the
\* block has the magic 0xdead_beef_1337_1337, a recorded command-line length
\* equal to the length given, and the given bytes at the start of its
\* command-line buffer.
C18_CmdlineRoundTrip ==
    (info.stage \in {"built", "panic"} /\ Len(info.cmdline) <= MAX_CMDLINE_LEN) =>
        /\ info.stage = "built"
        /\ info.block.magic = BootInformation_MAGIC
        /\ info.block.cmdline_len = Len(info.cmdline)
        /\ SubSeq(info.block.cmdline, 1, Len(info.cmdline)) = info.cmdline

\* the bytes of a struct's fields, without any padding the layout adds
RECURSIVE FieldBytes(_, _)
FieldBytes(fields, n) ==
    IF n = 0 THEN 0 ELSE FieldBytes(fields, n - 1) + fields[n].size

\* C19: the size of the BootInformation block is at most 2 MiB whatever the
\* command line and however many of its memory-map entries are used, and the
\* length field written by new equals that size.
C19_BlockFitsHugePage ==
    info.stage = "built" =>
        LET size == size_of(BootInformationFields)
        IN  /\ size <= TWO_MIB
            /\ size >= FieldBytes(BootInformationFields, Len(BootInformationFields))
            /\ size >= 3 * 8 + Len(info.block.cmdline)
                       + Len(info.block.mmap) * size_of(MemoryMapEntryFields)
            /\ info.block.mmap_n <= Len(info.block.mmap)
            /\ info.block.length = size

C19_Witness ==
    /\ info.stage = "built"
    /\ Len(info.cmdline) = CMDLINE_BUFFER_LEN
    /\ info.block.length = size_of(BootInformationFields)

---------------------------------------------------------------------------
(* VirtAddress::index on its own                                           *)

\* the worked example, the link address, the ends of the address space, one
\* bit at each level's lower and upper edge, alternating bit patterns
IndexAddrs ==
    { <<\Hffff, \Heeee, \Hdead, \Hbeef>>, EXPECTED_LINK_ADDR, ZERO64,
      <<\Hffff, \Hffff, \Hffff, \Hffff>>,
      <<0, 0, 0, \H0fff>>, <<0, 0, 0, \H1000>>, <<0, 0, \H0010, 0>>,
      <<0, 0, \H0020, 0>>, <<0, 0, \H2000, 0>>, <<0, 0, \H4000, 0>>,
      <<0, \H0040, 0, 0>>, <<0, \H0080, 0, 0>>, <<0, \H8000, 0, 0>>,
      <<\H0001, 0, 0, 0>>, <<\H8000, 0, 0, 0>>,
      <<\Haaaa, \Haaaa, \Haaaa, \Haaaa>>, <<\H5555, \H5555, \H5555, \H5555>>,
      <<\H0123, \H4567, \H89ab, \Hcdef>>, <<0, \H7fff, \Hffff, \Hf000>> }

InitIndex ==
    /\ pc = "index"
    /\ \E v \in IndexAddrs, level \in StepLevels :
          call = [stage |-> "input", vaddr |-> v, level |-> level, index |-> 0]
    /\ image = IdleImage
    /\ result = "none"
    /\ yielded = << >>
    /\ mem = << >>
    /\ heap = 0
    /\ root = ZERO64
    /\ setup = IdleSetup
    /\ tramp = ZERO64
    /\ p2v = ZERO64
    /\ codec = IdleCodec
    /\ boot = IdleBoot
    /\ info = IdleInfo

IndexCall ==
    /\ pc = "index"
    /\ call.stage = "input"
    /\ IF index_ok(call.level)
       THEN call' = [call EXCEPT !.stage = "returned",
                                 !.index = VirtAddress_index(call.vaddr, call.level)]
       ELSE call' = [call EXCEPT !.stage = "panic"]
    /\ UNCHANGED <<pc, image, result, yielded, mem, heap, root, setup, tramp, p2v, codec, boot, info>>

NextIndex == IndexCall

SpecIndex == InitIndex /\ [][NextIndex]_vars

RECURSIVE BitField(_, _, _)
\* the number whose bit j is bit lo + j of the word v, for j < n
BitField(v, lo, n) ==
    IF n = 0 THEN 0
    ELSE BitField(v, lo, n - 1) + Bit(v, lo + n - 1) * (2 ^ (n - 1))

\* C21: for every address and every level L in 1..4, index(L) returns the
\* value of the nine address bits from 12 + 9(L-1) on, a number in 0..511;
\* for 0xffff_eeee_dead_beef these are 477, 443, 245, 219 for levels 4, 3, 2,
\* 1; a level outside 1..4 fails the assertion.
C21_IndexIsNineBits ==
    /\ call.stage = "returned" =>
          /\ call.level \in 1..4
          /\ call.index = BitField(call.vaddr, 12 + 9 * (call.level - 1), 9)
          /\ call.index \in 0..511
          /\ call.vaddr = <<\Hffff, \Heeee, \Hdead, \Hbeef>> =>
                call.index = <<219, 245, 443, 477>>[call.level]
    /\ call.stage = "panic" => call.level \notin 1..4
    /\ (call.stage = "input" /\ call.level \notin 1..4) => ~index_ok(call.level)

C21_Witness ==
    /\ call.stage = "returned"
    /\ call.vaddr = <<\Hffff, \Heeee, \Hdead, \Hbeef>>
    /\ call.level = 4
    /\ call.index = 477

---------------------------------------------------------------------------
(* util::mem::AlignedBuffer<u8>                                            *)

MaxWrites == 2

\* capacities asked for, indices and bytes used on the buffer
BufferCapacities == {0, 1, 2, 3, 8}
BufferIndices == {0, 1, 2, 7, 8, 9}
BufferBytes == {0, 42, 73}

\* u8::default()
u8_default == 0

\* slice.fill(T::default()) over capacity elements
AlignedBuffer_fill(capacity) == [i \in 1..capacity |-> u8_default]

\* an index check that admits the index one behind the last element
slice_index_ok_inclusive(capacity, index) == index <= capacity

\* the bounds check of slice indexing behind Index / IndexMut
slice_index_ok(capacity, index) == index < capacity

\* buf[index] = value
AlignedBuffer_index_mut(data, index, value) == [data EXCEPT ![index + 1] = value]

InitBuffer ==
    /\ pc = "buffer"
    /\ \E capacity \in BufferCapacities :
          call = [stage |-> "input", capacity |-> capacity, heap_ptr |-> ZERO64,
                  data |-> << >>, writes |-> 0,
                  last |-> [index |-> 0, value |-> 0, before |-> << >>,
                            outcome |-> "none"]]
    /\ image = IdleImage
    /\ result = "none"
    /\ yielded = << >>
    /\ mem = << >>
    /\ heap = 0
    /\ root = ZERO64
    /\ setup = IdleSetup
    /\ tramp = ZERO64
    /\ p2v = ZERO64
    /\ codec = IdleCodec
    /\ boot = IdleBoot
    /\ info = IdleInfo

\* AlignedBuffer::new(capacity, TWO_MIB)
BufferNew ==
    /\ pc = "buffer"
    /\ call.stage = "input"
    /\ \E b \in AlignedBuffer_new(call.capacity) :
          call' = [call EXCEPT !.stage = "ready", !.heap_ptr = b,
                               !.data = AlignedBuffer_fill(call.capacity)]
    /\ UNCHANGED <<pc, image, result, yielded, mem, heap, root, setup, tramp, p2v, codec, boot, info>>

\* buf[index] = value through IndexMut<usize>
BufferWrite ==
    /\ pc = "buffer"
    /\ call.stage = "ready"
    /\ call.writes < MaxWrites
    /\ \E index \in BufferIndices, value \in BufferBytes :
          IF slice_index_ok(call.capacity, index)
          THEN call' = [call EXCEPT
                          !.data = AlignedBuffer_index_mut(call.data, index, value),
                          !.writes = @ + 1,
                          !.last = [index |-> index, value |-> value,
                                    before |-> call.data, outcome |-> "written"]]
          ELSE call' = [call EXCEPT
                          !.stage = "panic",
                          !.last = [index |-> index, value |-> value,
                                    before |-> call.data, outcome |-> "panic"]]
    /\ UNCHANGED <<pc, image, result, yielded, mem, heap, root, setup, tramp, p2v, codec, boot, info>>

NextBuffer == BufferNew \/ BufferWrite

SpecBuffer == InitBuffer /\ [][NextBuffer]_vars

---------------------------------------------------------------------------
(* the global heap and the logger facade: SpinMutex<OnceCell<..>>          *)

MaxOps == 4

\* OnceCell::new(): the empty cell
OnceCell_new == 0

\* a cell that takes every value offered to it
OnceCell_get_or_init_replaces(cell, value) == value

\* OnceCell::get_or_init: the closure's value is stored only in an empty cell
OnceCell_get_or_init(cell, value) == IF cell = OnceCell_new THEN value ELSE cell

\* OnceCell::get / get_mut: Some for a cell that holds a value
OnceCell_is_some(cell) == cell # OnceCell_new

\* the inner loggers a caller may hand to LoggerFacade::init
Inners == {1, 2}

\* the program has panicked: the handler runs, has halted, or waits for a lock
Fatal == {"panic_handler", "halted", "spinning"}

\* the state of both globals, saved before each operation
Globals ==
    [heap_cell |-> call.heap_cell, logger_cell |-> call.logger_cell,
     stdout |-> call.stdout, emitted |-> call.emitted, live |-> call.live]

InitLog ==
    /\ pc = "run"
    /\ call = [ops |-> 0, heap_cell |-> OnceCell_new, pages |-> 0, live |-> 0,
               logger_cell |-> OnceCell_new, stdout |-> FALSE,
               registered |-> FALSE, locked |-> FALSE, emitted |-> 0,
               last |-> "none",
               before |-> [heap_cell |-> OnceCell_new, logger_cell |-> OnceCell_new,
                           stdout |-> FALSE, emitted |-> 0, live |-> 0]]
    /\ image = IdleImage
    /\ result = "none"
    /\ yielded = << >>
    /\ mem = << >>
    /\ heap = 0
    /\ root = ZERO64
    /\ setup = IdleSetup
    /\ tramp = ZERO64
    /\ p2v = ZERO64
    /\ codec = IdleCodec
    /\ boot = IdleBoot
    /\ info = IdleInfo

\* an operation of the program begins
Begin(op) ==
    [call EXCEPT !.ops = @ + 1, !.last = op, !.before = Globals]

\* Log::log of the facade is entered: the spin lock is taken, or the caller
\* spins on it; an empty cell drops the record and releases the lock
FacadeLogPc(c) ==
    IF c.locked THEN "spinning"
    ELSE IF OnceCell_is_some(c.logger_cell) THEN "in_log" ELSE "run"

FacadeLog(c) ==
    IF c.locked THEN c
    ELSE IF OnceCell_is_some(c.logger_cell) THEN [c EXCEPT !.locked = TRUE] ELSE c

\* heap::init(): allocate_pages, get_or_init of the allocator, and the
\* debug! record with its vec![1, 2, 3], which is allocated and freed
HeapInit ==
    /\ pc = "run"
    /\ call.ops < MaxOps
    /\ LET c0 == Begin("heap_init")
           c1 == [c0 EXCEPT !.pages = @ + 1,
                            !.heap_cell = OnceCell_get_or_init(@, call.pages + 1)]
       IN  IF call.registered
           THEN /\ call' = FacadeLog(c1)
                /\ pc' = FacadeLogPc(c1)
           ELSE /\ call' = c1
                /\ pc' = "run"
    /\ UNCHANGED <<image, result, yielded, mem, heap, root, setup, tramp, p2v, codec, boot, info>>

\* GlobalAlloc::alloc: get_mut().expect(..)
HeapAlloc ==
    /\ pc = "run"
    /\ call.ops < MaxOps
    /\ IF OnceCell_is_some(call.heap_cell)
       THEN /\ call' = [Begin("alloc") EXCEPT !.live = @ + 1]
            /\ pc' = "run"
       ELSE /\ call' = Begin("alloc")
            /\ pc' = "panic_handler"
    /\ UNCHANGED <<image, result, yielded, mem, heap, root, setup, tramp, p2v, codec, boot, info>>

\* LoggerFacade::init: get_or_init, then log::set_logger(..).expect(..)
LoggerInit ==
    /\ pc = "run"
    /\ call.ops < MaxOps
    /\ \E inner \in Inners :
          /\ call' = [Begin("logger_init") EXCEPT
                         !.logger_cell = OnceCell_get_or_init(@, inner),
                         !.registered = TRUE]
          /\ pc' = IF call.registered THEN "panic_handler" ELSE "run"
    /\ UNCHANGED <<image, result, yielded, mem, heap, root, setup, tramp, p2v, codec, boot, info>>

\* LoggerFacade::update with the closure of logger::init, which sets the
\* stdout logger; the guard is held when the expect fails
LoggerUpdate ==
    /\ pc = "run"
    /\ call.ops < MaxOps
    /\ IF OnceCell_is_some(call.logger_cell)
       THEN /\ call' = [Begin("update") EXCEPT !.stdout = TRUE]
            /\ pc' = "run"
       ELSE /\ call' = [Begin("update") EXCEPT !.locked = TRUE]
            /\ pc' = "panic_handler"
    /\ UNCHANGED <<image, result, yielded, mem, heap, root, setup, tramp, p2v, codec, boot, info>>

\* a record is logged: through the log crate's macros, which reach the
\* facade once it is registered, or by calling Log::log of the facade
LogCall ==
    /\ pc = "run"
    /\ call.ops < MaxOps
    /\ \E direct \in BOOLEAN :
          LET c0 == Begin("log")
          IN  IF direct \/ call.registered
              THEN /\ call' = FacadeLog(c0)
                   /\ pc' = FacadeLogPc(c0)
              ELSE /\ call' = c0
                   /\ pc' = "run"
    /\ UNCHANGED <<image, result, yielded, mem, heap, root, setup, tramp, p2v, codec, boot, info>>

\* LoggerFacadeInner::log under the facade's lock: the stdout logger, whose
\* expect/unwrap fail when the console write fails, then debugcon
BackendLog ==
    /\ pc = "in_log"
    /\ \E stdout_ok \in BOOLEAN :
          IF call.stdout /\ ~stdout_ok
          THEN /\ pc' = "panic_handler"
               /\ UNCHANGED call
          ELSE /\ pc' = "run"
               /\ call' = [call EXCEPT !.emitted = @ + 1, !.locked = FALSE]
    /\ UNCHANGED <<image, result, yielded, mem, heap, root, setup, tramp, p2v, codec, boot, info>>

\* handle_panic / the panic hook: error!(..), then the program halts
PanicHandler ==
    /\ pc = "panic_handler"
    /\ IF ~call.registered
       THEN /\ pc' = "halted"
            /\ UNCHANGED call
       ELSE IF call.locked
       THEN /\ pc' = "spinning"
            /\ UNCHANGED call
       ELSE /\ pc' = "halted"
            /\ call' = [call EXCEPT !.emitted = @ + 1]
    /\ UNCHANGED <<image, result, yielded, mem, heap, root, setup, tramp, p2v, codec, boot, info>>

NextLog ==
    \/ HeapInit
    \/ HeapAlloc
    \/ LoggerInit
    \/ LoggerUpdate
    \/ LogCall
    \/ BackendLog
    \/ PanicHandler

SpecLog == InitLog /\ [][NextLog]_vars

\* C25: an installed allocator and an installed inner logger are never
\* replaced, whatever is called afterwards; a second LoggerFacade::init is
\* fatal; an allocation before heap init and an update before logger init
\* are fatal; a record logged before logger init is dropped: nothing is
\* emitted, no global changes, and the program goes on.
C25_FirstInitStays ==
    /\ OnceCell_is_some(call.before.heap_cell) => call.heap_cell = call.before.heap_cell
    /\ OnceCell_is_some(call.before.logger_cell) =>
          call.logger_cell = call.before.logger_cell
    /\ (call.last = "heap_init" /\ OnceCell_is_some(call.before.heap_cell)) =>
          call.live = call.before.live
    /\ (call.last = "logger_init" /\ OnceCell_is_some(call.before.logger_cell)) =>
          pc \in Fatal
    /\ (call.last = "alloc" /\ ~OnceCell_is_some(call.before.heap_cell)) =>
          pc \in Fatal
    /\ (call.last = "update" /\ ~OnceCell_is_some(call.before.logger_cell)) =>
          pc \in Fatal
    /\ (call.last = "log" /\ ~OnceCell_is_some(call.before.logger_cell)) =>
          /\ pc = "run"
          /\ ~call.locked
          /\ Globals = call.before

\* a second heap init and a second logger init have both happened
C25_Witness ==
    /\ call.last = "logger_init"
    /\ OnceCell_is_some(call.before.logger_cell)
    /\ call.pages = 2
    /\ OnceCell_is_some(call.heap_cell)
    /\ pc \in Fatal

\* C30: a log call on an initialised facade never waits on the facade's spin
\* lock while the same flow of control holds it, also when the backend
\* panics under the lock and the panic handler logs through the facade.
C30_LogNeverWaitsOnItself ==
    pc # "spinning"

---------------------------------------------------------------------------
(* Properties of KernelFile                                                *)

Loads == LoadHeaders(image.phdrs)

Parsed == pc # "start"

HasClassRX == \E i \in 1..Len(Loads) : AndNat(Loads[i].p_flags, RX) = RX
HasClassRW == \E i \in 1..Len(Loads) : AndNat(Loads[i].p_flags, RW) = RW
HasClassRO == \E i \in 1..Len(Loads) : Loads[i].p_flags = PF_R

AllClasses == HasClassRX /\ HasClassRW /\ HasClassRO

\* C1: an image whose LOAD segments lack a read+execute, a read+write or a
\* read-only segment is rejected with InvalidLoadSegments, never accepted.
C1_MissingClassRejected ==
    (Parsed /\ image.valid /\ ~AllClasses) => result = "InvalidLoadSegments"

\* each segment starts where the one before it ends, rounded up to 2 MiB
Contiguous ==
    \A i \in 1..(Len(Loads) - 1) :
        Loads[i + 1].p_vaddr =
            NextMultipleOfTwoMib(Add64(Loads[i].p_vaddr, U64(Loads[i].p_filesz)))

\* no segment's range [p_vaddr, p_vaddr + p_memsz) reaches into the next one
NoOverlap ==
    \A i \in 1..(Len(Loads) - 1) :
        ~Less64(Loads[i + 1].p_vaddr, Add64(Loads[i].p_vaddr, U64(Loads[i].p_memsz)))

\* C2: from_bytes returns InvalidLoadSegments unless every LOAD segment's
\* address is the previous segment's address plus the previous segment's own
\* size, rounded up to 2 MiB; so accepted images have no overlapping segments.
C2_NonContiguousRejected ==
    /\ (Parsed /\ image.valid /\ ~Contiguous) => result = "InvalidLoadSegments"
    /\ (Parsed /\ result = "Ok") => NoOverlap

CountIsThree == Cardinality({i \in 1..Len(image.phdrs) : image.phdrs[i].p_type = PT_LOAD}) = 3

FirstAtLink == Len(Loads) >= 1 /\ Loads[1].p_vaddr = <<\Hffff, \Hffff, \H8820, 0>>

AllAligned == \A i \in 1..Len(Loads) : \A b \in 0..20 : Bit(Loads[i].p_vaddr, b) = 0

FileEqualsMem == \A i \in 1..Len(Loads) : Loads[i].p_filesz = Loads[i].p_memsz

FourConditions == CountIsThree /\ FirstAtLink /\ AllAligned /\ FileEqualsMem

SatisfiesInvariants ==
    image.valid /\ FourConditions /\ AllClasses /\ Contiguous

YieldedLoads == SelectSeq(yielded, LAMBDA it : it.hdr.p_type = PT_LOAD)

\* C3: an image that satisfies all the construction invariants is accepted,
\* and load_segments() then yields exactly 3 entries with strictly increasing,
\* 2 MiB aligned virtual addresses.
C3_ValidImageAccepted ==
    (Parsed /\ SatisfiesInvariants) =>
        /\ result = "Ok"
        /\ pc = "iterated" =>
            /\ Len(YieldedLoads) = 3
            /\ \A i \in 1..2 :
                  Less64(YieldedLoads[i].hdr.p_vaddr, YieldedLoads[i + 1].hdr.p_vaddr)
            /\ \A i \in 1..3 : IsMultipleOf(YieldedLoads[i].hdr.p_vaddr, TWO_MIB)

\* C4: an accepted image has exactly three LOAD segments, the first at
\* 0xffffffff88200000, all 2 MiB aligned, all with file size = memory size;
\* a well-formed image violating one of these is rejected with
\* InvalidLoadSegments, a malformed container with InvalidElf.
C4_AcceptedImageShape ==
    Parsed =>
        /\ ~image.valid => result = "InvalidElf"
        /\ result = "Ok" => FourConditions
        /\ (image.valid /\ ~FourConditions) => result = "InvalidLoadSegments"

C4_Witness == pc = "parsed" /\ result = "Ok" /\ FourConditions

\* C10: segments() never yields a slice that extends past the end of the
\* image buffer.
C10_SlicesInsideBuffer ==
    \A k \in 1..Len(yielded) :
        yielded[k].data.start + yielded[k].data.len <= image.len

---------------------------------------------------------------------------
(* Properties of setup_page_tables                                         *)

\* the write that put the byte at position pos of the destination buffer
\* there: the last one covering it, 0 if the byte still has its initial value
RECURSIVE LastWrite(_, _, _)
LastWrite(ws, n, pos) ==
    IF n = 0 THEN 0
    ELSE IF ws[n].dst <= pos /\ pos < ws[n].dst + ws[n].len THEN n
    ELSE LastWrite(ws, n - 1, pos)

\* the file position whose byte is at position pos of the destination buffer,
\* -1 for a byte that was never written
DstSource(pos) ==
    LET n == LastWrite(setup.writes, Len(setup.writes), pos)
    IN  IF n = 0 THEN -1 ELSE setup.writes[n].src + (pos - setup.writes[n].dst)

\* positions at which the writes begin or end
WriteEdges ==
    UNION { {setup.writes[n].dst, setup.writes[n].dst + setup.writes[n].len} :
            n \in 1..Len(setup.writes) }

\* the bytes from position `at` on are the file bytes of segment k; between
\* two edges the source advances with the position, so the edges decide
HoldsSegment(at, k) ==
    \A pos \in ({at} \cup WriteEdges) :
        (at <= pos /\ pos < at + Loads[k].p_filesz) =>
            DstSource(pos) = Loads[k].p_offset + (pos - at)

NonEmpty(k) == Loads[k].p_memsz > 0

\* C7: walking the returned root for the first address of each LOAD segment
\* reaches a present level-2 huge-page entry whose physical address is the
\* start of that segment's copy in the destination buffer, and the bytes
\* there are the segment's file bytes (segments that have bytes).
C7_SegmentsResolveToCopies ==
    pc = "done" =>
        \A k \in 1..Len(Loads) : NonEmpty(k) =>
            LET w == Walk(mem, ZERO64, root, Loads[k].p_vaddr)
            IN  /\ w.kind = "page"
                /\ w.level = 2
                /\ Has(w.entry, BIT_HUGEPAGE)
                /\ HwAddr(w.entry) = Add64(setup.base, U64(setup.writes[k].dst))
                /\ HoldsSegment(setup.writes[k].dst, k)

\* C8: the final entry of each LOAD segment has the write bit set exactly
\* when the segment's flags contain PF_W, and the execute-disable bit set
\* exactly when they do not contain PF_X (segments that have bytes).
C8_PermissionsFollowFlags ==
    pc = "done" =>
        \A k \in 1..Len(Loads) : NonEmpty(k) =>
            LET w == Walk(mem, ZERO64, root, Loads[k].p_vaddr)
            IN  /\ w.kind = "page"
                /\ Has(w.entry, BIT_WRITE) <=> (AndNat(Loads[k].p_flags, PF_W) # 0)
                /\ Has(w.entry, BIT_EXECUTE_DISABLE) <=> (AndNat(Loads[k].p_flags, PF_X) = 0)

RECURSIVE PlannedOffset(_)
\* the sum of the sizes, each rounded up to 2 MiB, of the segments before k
PlannedOffset(k) ==
    IF k <= 1 THEN 0 ELSE PlannedOffset(k - 1) + RoundUpTwoMib(Loads[k - 1].p_memsz)

\* C9: the segments are placed in file order at offsets that advance by each
\* segment's size rounded up to 2 MiB; no two segments (that have bytes) are
\* mapped to the same 2 MiB region; every copy stays inside the buffer of
\* total_runtime_memsize() bytes.
C9_DisjointPlacement ==
    pc \in {"setup_loop", "done"} =>
        /\ \A k \in 1..Len(setup.phys) :
              /\ setup.writes[k].dst = PlannedOffset(k)
              /\ setup.writes[k].dst % TWO_MIB = 0
              /\ setup.writes[k].dst + setup.writes[k].len <= total_runtime_memsize(image)
        /\ \A j, k \in 1..Len(setup.phys) :
              (j # k /\ NonEmpty(j) /\ NonEmpty(k)) => setup.phys[j] # setup.phys[k]

\* C14: after setup_page_tables, the walk from the returned root for the
\* trampoline address passes four levels without a huge-page entry and ends
\* at a present level-1 entry whose physical address is the trampoline
\* address rounded down to 4 KiB, with execute-disable clear.
C14_TrampolineIdentityMapped ==
    pc = "done" =>
        LET w == Walk(mem, ZERO64, root, tramp)
        IN  /\ w.kind = "page"
            /\ w.level = 1
            /\ Has(w.entry, BIT_PRESENT)
            /\ ~Has(w.entry, BIT_HUGEPAGE)
            /\ ~Has(w.entry, BIT_EXECUTE_DISABLE)
            /\ HwAddr(w.entry) =
                  <<tramp[1], tramp[2], tramp[3], tramp[4] - (tramp[4] % 4096)>>

C14_Witness ==
    /\ pc = "done"
    /\ tramp = <<0, 0, \H7e5a, \H3458>>
    /\ Walk(mem, ZERO64, root, tramp).level = 1

---------------------------------------------------------------------------
(* Properties of the loader's main sequence                                *)

\* C15: when control is in the kernel, a boot information block with the
\* magic 0xdead_beef_1337_1337 has been populated by the loader and the
\* register the kernel entry takes its argument from (rdx) holds the block's
\* address; the kernel runs on only after it has compared the magic.
C15_HandoffBlockPassed ==
    /\ boot.rip = "kernel" =>
          /\ boot.handoff # "none"
          /\ boot.handoff.magic = BootInformation_MAGIC
          /\ boot.rdx = boot.handoff.addr
    /\ pc = "kernel_running" => boot.magic_checked

\* the positions from the first instruction of the trampoline on
PastLoader ==
    {"trampoline", "trampoline_jmp", "kernel_entry", "kernel_main",
     "kernel_running", "kernel_panic", "fault"}

C17_FailureHalts ==
    (boot.failed \/ pc = "panic") =>
        /\ boot.cr3 = FirmwareCr3
        /\ boot.rip = "loader"
        /\ boot.end \in {"running", "halted"}

---------------------------------------------------------------------------
(* Properties of total_runtime_memsize                                     *)

\* the least multiple of 2 MiB that is not below n
CeilTwoMib(n) == ((n + TWO_MIB - 1) \div TWO_MIB) * TWO_MIB

RECURSIVE LoadSum(_, _)
\* over the first n program headers, the LOAD ones only
LoadSum(phdrs, n) ==
    IF n = 0 THEN 0
    ELSE LoadSum(phdrs, n - 1)
         + (IF phdrs[n].p_type = PT_LOAD THEN CeilTwoMib(phdrs[n].p_memsz) ELSE 0)

\* C20: for an accepted image, total_runtime_memsize() is the sum over the
\* LOAD segments only of each memory size rounded up on its own to a multiple
\* of 2 MiB (0 adds 0, 2 MiB adds 2 MiB), and is a multiple of 2 MiB; it is
\* the capacity setup_page_tables allocates.
C20_TotalRuntimeMemsize ==
    result = "Ok" =>
        /\ total_runtime_memsize(image) = LoadSum(image.phdrs, Len(image.phdrs))
        /\ total_runtime_memsize(image) % TWO_MIB = 0
        /\ pc = "setup_loop" =>
              setup.capacity = LoadSum(image.phdrs, Len(image.phdrs))

C20_Witness ==
    /\ result = "Ok"
    /\ pc = "setup_loop"
    /\ \E i \in 1..Len(image.phdrs) :
          image.phdrs[i].p_type = PT_LOAD /\ image.phdrs[i].p_memsz = TWO_MIB
    /\ \E i \in 1..Len(image.phdrs) :
          image.phdrs[i].p_type = PT_LOAD /\ image.phdrs[i].p_memsz = PAGE_SIZE
    /\ \E i \in 1..Len(image.phdrs) :
          image.phdrs[i].p_type = PT_LOAD /\ image.phdrs[i].p_memsz = 0
    /\ setup.capacity = 2 * TWO_MIB

---------------------------------------------------------------------------
(* Properties of load_segments and of the copies setup_page_tables makes   *)

\* the file range of header h lies inside the image buffer
InFile(h) == h.p_offset + h.p_filesz <= image.len

\* the iterator segments() failed on the header after the ones yielded
IteratorFailed == pc = "panic" /\ heap = 0 /\ result = "Ok"

\* C26: for every LOAD segment of an accepted image whose file range
\* [p_offset, p_offset + p_filesz) lies inside the buffer, the iterator does
\* not fail on it and yields the slice that starts at p_offset and has length
\* p_filesz (also for offset 0 and for offsets in the second half of the
\* buffer), and setup_page_tables copies p_filesz bytes from p_offset.
C26_FullPayloadYielded ==
    /\ IteratorFailed =>
          LET h == ElfSegments(image)[Len(yielded) + 1]
          IN  ~(h.p_type = PT_LOAD /\ InFile(h))
    /\ \A i \in 1..Len(yielded) :
          (yielded[i].hdr.p_type = PT_LOAD /\ InFile(yielded[i].hdr)) =>
              /\ yielded[i].data.start = yielded[i].hdr.p_offset
              /\ yielded[i].data.len = yielded[i].hdr.p_filesz
    /\ \A i \in 1..Len(setup.writes) :
          InFile(load_segments(image)[i]) =>
              /\ setup.writes[i].src = load_segments(image)[i].p_offset
              /\ setup.writes[i].len = load_segments(image)[i].p_filesz

\* the offsets probed inside a segment of the given memory size: its first
\* byte and the first byte of each further 2 MiB page
ProbeOffsets(memsz) == { o \in {0, TWO_MIB, 2 * TWO_MIB} : o < memsz }

\* C28: after setup_page_tables, every address inside [p_vaddr, p_vaddr +
\* p_memsz) of each LOAD segment resolves to the corresponding place of the
\* segment's copy in the destination buffer, also in a segment larger than
\* 2 MiB, which needs more than one huge-page entry.
C28_WholeSegmentResolves ==
    pc = "done" =>
        \A k \in 1..Len(Loads) : \A o \in ProbeOffsets(Loads[k].p_memsz) :
            LET w == Walk(mem, ZERO64, root, Add64(Loads[k].p_vaddr, U64(o)))
            IN  /\ w.kind = "page"
                /\ w.level = 2
                /\ HwAddr(w.entry) = Add64(setup.base, U64(setup.writes[k].dst + o))

---------------------------------------------------------------------------
(* Properties of the trampoline block of setup_page_tables                 *)

\* the loop over the LOAD segments is over: the trampoline block is next
AtTrampolineBlock ==
    pc = "setup_loop" /\ setup.i > Len(load_segments(image))

SharesLevel4Slot ==
    VirtAddress_index(tramp, 4) = VirtAddress_index(virt_start(image), 4)

\* C29: the trampoline block changes no entry on the kernel's path: if the
\* trampoline address has the level-4 index of the kernel's start address,
\* setup_page_tables fails and the level-4 entry stays as it was; otherwise
\* the walk for every LOAD segment ends at the same entry (same physical
\* address, same permission bits) before and after the block.
C29_TrampolineKeepsKernelPath ==
    [][ AtTrampolineBlock =>
          IF SharesLevel4Slot
          THEN /\ pc' = "panic"
               /\ mem'[setup.pt_l4] = mem[setup.pt_l4]
          ELSE \A k \in 1..Len(Loads) :
                  Walk(mem', ZERO64, setup.pt_l4, Loads[k].p_vaddr)
                      = Walk(mem, ZERO64, setup.pt_l4, Loads[k].p_vaddr) ]_vars

\* setup_page_tables returned with a trampoline in another level-4 slot and
\* a kernel segment that resolves to a huge page
C29_Witness ==
    /\ pc = "done"
    /\ ~SharesLevel4Slot
    /\ \E k \in 1..Len(Loads) :
          Walk(mem, ZERO64, root, Loads[k].p_vaddr).kind = "page"

====
